---- MODULE Spec2Model ----
(***************************************************************************)
(* A model of git-storage (src/src/storage.ts): the bucket record store,   *)
(* the LWW and list-item mergers, the list normalizer, the sync            *)
(* coordinator with its in-flight gate, and the history compactor.         *)
(*                                                                         *)
(* Abstractions, each stated where it is used:                             *)
(*  - UUIDs (makeId) are integers drawn from an unused pool; integer order *)
(*    stands for the lexicographic order of the UUID strings.              *)
(*  - Date.now() is a per-replica clock that never goes backwards.         *)
(*  - deletedAt = null is 0: the code only ever tests deletedAt for        *)
(*    truthiness, and timestamps start at 1.                               *)
(*  - A record does not repeat its key: every code path stores a record    *)
(*    under record.key.                                                    *)
(*  - A git commit is the tree it holds (bucket files and their records)   *)
(*    and the number of commits in its history.                            *)
(*  - The transport to repoUrl fails or not as the environment decides;    *)
(*    config.flaky says whether it may fail at all.                        *)
(*  - The runtime's timers are a table of the timers that are armed;     *)
(*    syncTimer and syncIntervalTimer are the handles the fields hold,     *)
(*    which may name a timer that has expired.                             *)
(*  - A bucket file that JSON.parse rejects is a bucket marked corrupt     *)
(*    whose records are gone; the environment may damage any file.         *)
(*  - logged holds the messages config.logger was called with.             *)
(*  - last holds the arguments and the outcome of the last call.           *)
(*  - pushedBy, seen and log are history variables: they record what the   *)
(*    sync() calls met and guard no step.                                  *)
(*  - An operator introduced as a faulty variant of X is kept to show      *)
(*    that a property depends on X; no specification uses it.              *)
(***************************************************************************)
EXTENDS Integers, Sequences, FiniteSets, TLC

\* ------------------------------------------------------------------ bounds
MaxId == 7          \* size of the UUID pool
MaxTime == 2        \* largest clock value
MaxVal == 2         \* user values 1..MaxVal
MaxCalls == 3       \* sync() invocations per replica
MaxOps == 4         \* local calls per replica
ListCalls == 4      \* calls of the replica that only uses its list
MaxPush == 2        \* values given to one lpush / rpush
MaxCount == 2       \* count given to lpop / rpop
MaxIndex == 2       \* lset indexes run from -(MaxIndex + 1) to MaxIndex
MaxMinutes == 2     \* largest syncIntervalMinutes
SchedOps == 3       \* calls of the replica whose timers are observed
CompactOps == 3     \* set calls of the replica whose compaction is observed
CompactRounds == 2  \* its sync() calls
CompactIds == 2     \* UUIDs left to it
LargeCount == 4     \* a writeCountThreshold that a first sync does not reach
SmallBytes == 3     \* a writeBytesThreshold that one write reaches
LargeBytes == 100   \* a writeBytesThreshold that is not reached
ScanOps == 4        \* calls of the replica that scans its keys
ScanIds == 5        \* UUIDs left to it
MaxCursor == 2      \* largest cursor handed to scan
MaxScanCount == 2   \* largest count handed to scan
NormOps == 2        \* list calls of the replica whose orders are normalized
NormRounds == 2     \* its sync() calls
AbortOps == 2       \* lset calls between the rounds
AbortRounds == 3    \* sync() calls
SharedOps == 1      \* lset calls of each replica on the shared item
SharedRounds == 5   \* sync() calls of the two replicas together
LostOps == 1        \* set calls of each replica before the concurrent rounds
LostRounds == 4     \* sync() calls of the two replicas together
SchedIds == 4       \* UUIDs left to that replica
MaxMergeTime == 2   \* timestamps of the records fed to the mergers
MaxMergeId == 2     \* record ids of the records fed to the mergers

\* ------------------------------------------------------------ record model
Ids == 1..MaxId
Null == 0
NonFinite == -1     \* an updatedAt for which Number.isFinite is false

NoRec == [absent |-> TRUE]

PlainKey(n) == [kind |-> "plain", name |-> n, item |-> 0]

listMetaKey(key) == [kind |-> "meta", name |-> key, item |-> 0]

listItemKey(key, itemId) == [kind |-> "item", name |-> key, item |-> itemId]

NotListItem == [listKey |-> "", itemId |-> Null]

\* NotListItem (null in the code) when the key is not list:<L>:item:<uuid>
parseListItemKey(key) ==
  IF key.kind = "item" THEN [listKey |-> key.name, itemId |-> key.item] ELSE NotListItem

inferType(value) == IF value % 2 = 0 THEN "object" ELSE "string"

IsFinite(x) == x # NonFinite

MkRecord(id, type, createdAt, updatedAt, deletedAt, value, marked, order, winnerId) ==
  [id |-> id, type |-> type, createdAt |-> createdAt, updatedAt |-> updatedAt,
   deletedAt |-> deletedAt, value |-> value, marked |-> marked, order |-> order,
   conflictLoser |-> winnerId]

\* ------------------------------------------------------------------ mergers
\* faulty variant of mergeRecord: on equal updatedAt the smaller id wins
mergeRecord_TieToSmallerId(local, remote) ==
  IF local = NoRec /\ remote = NoRec THEN NoRec
  ELSE IF local = NoRec THEN remote
  ELSE IF remote = NoRec THEN local
  ELSE LET localUpdated == IF IsFinite(local.updatedAt) THEN local.updatedAt ELSE 0
           remoteUpdated == IF IsFinite(remote.updatedAt) THEN remote.updatedAt ELSE 0
       IN IF localUpdated > remoteUpdated THEN local
          ELSE IF remoteUpdated > localUpdated THEN remote
          ELSE IF local.id <= remote.id THEN local ELSE remote

\* faulty variant of mergeRecord: returns a copy of the winner made anew
mergeRecord_Recreate(local, remote) ==
  IF local = NoRec /\ remote = NoRec THEN NoRec
  ELSE IF local = NoRec THEN [remote EXCEPT !.createdAt = @ + 1]
  ELSE IF remote = NoRec THEN [local EXCEPT !.createdAt = @ + 1]
  ELSE LET localUpdated == IF IsFinite(local.updatedAt) THEN local.updatedAt ELSE 0
           remoteUpdated == IF IsFinite(remote.updatedAt) THEN remote.updatedAt ELSE 0
       IN IF localUpdated > remoteUpdated THEN [local EXCEPT !.createdAt = @ + 1]
          ELSE IF remoteUpdated > localUpdated THEN [remote EXCEPT !.createdAt = @ + 1]
          ELSE IF local.id >= remote.id THEN [local EXCEPT !.createdAt = @ + 1]
          ELSE [remote EXCEPT !.createdAt = @ + 1]

\* which side mergeRecord returns: the code returns the object itself
mergeSide(local, remote) ==
  IF local = NoRec /\ remote = NoRec THEN "none"
  ELSE IF local = NoRec THEN "remote"
  ELSE IF remote = NoRec THEN "local"
  ELSE LET localUpdated == IF IsFinite(local.updatedAt) THEN local.updatedAt ELSE 0
           remoteUpdated == IF IsFinite(remote.updatedAt) THEN remote.updatedAt ELSE 0
       IN IF localUpdated > remoteUpdated THEN "local"
          ELSE IF remoteUpdated > localUpdated THEN "remote"
          ELSE IF local.id >= remote.id THEN "local" ELSE "remote"

mergeRecord(local, remote) ==
  CASE mergeSide(local, remote) = "local" -> local
    [] mergeSide(local, remote) = "remote" -> remote
    [] OTHER -> NoRec

\* faulty variant of mergeListItemRecord: plain LWW, a newer tombstone wins
mergeListItemRecord_LwwOnly(local, remote) ==
  LET winner == mergeRecord(local, remote)
  IN [winner |-> winner, loser |-> NoRec]

\* faulty variant of mergeListItemRecord: of two live versions the remote one
\* wins and the local one is the loser
mergeListItemRecord_RemoteWins(local, remote) ==
  IF local = NoRec /\ remote = NoRec THEN [winner |-> NoRec, loser |-> NoRec]
  ELSE IF local = NoRec THEN [winner |-> remote, loser |-> NoRec]
  ELSE IF remote = NoRec THEN [winner |-> local, loser |-> NoRec]
  ELSE IF local.deletedAt # Null /\ remote.deletedAt = Null THEN [winner |-> remote, loser |-> NoRec]
  ELSE IF remote.deletedAt # Null /\ local.deletedAt = Null THEN [winner |-> local, loser |-> NoRec]
  ELSE IF local.deletedAt = Null /\ remote.deletedAt = Null
          /\ (local.updatedAt # remote.updatedAt \/ local.id # remote.id)
  THEN [winner |-> remote, loser |-> local]
  ELSE [winner |-> remote, loser |-> NoRec]

mergeListItemRecord(local, remote) ==
  IF local = NoRec /\ remote = NoRec THEN [winner |-> NoRec, loser |-> NoRec]
  ELSE IF local = NoRec THEN [winner |-> remote, loser |-> NoRec]
  ELSE IF remote = NoRec THEN [winner |-> local, loser |-> NoRec]
  ELSE LET localDeleted == local.deletedAt # Null
           remoteDeleted == remote.deletedAt # Null
       IN IF localDeleted /\ ~remoteDeleted THEN [winner |-> remote, loser |-> NoRec]
          ELSE IF remoteDeleted /\ ~localDeleted THEN [winner |-> local, loser |-> NoRec]
          ELSE LET side == mergeSide(local, remote)
                   winner == mergeRecord(local, remote)
                   loser == IF side = "local" THEN remote ELSE local
               IN IF ~localDeleted /\ ~remoteDeleted
                     /\ (local.updatedAt # remote.updatedAt \/ local.id # remote.id)
                  THEN [winner |-> winner, loser |-> loser]
                  ELSE [winner |-> winner, loser |-> NoRec]


\* --------------------------------------------------------------- the store
Replicas == {"A", "B"}
TheList == "L"
Lists == {TheList}
LineBreakNames == {"a\nb"}    \* key names that hold a line terminator
PlainNames == {"k"} \cup LineBreakNames
NumBuckets == 2

UserKeys == {PlainKey(n) : n \in PlainNames}
MetaKeys == {listMetaKey(l) : l \in Lists}
ItemKeys == {listItemKey(l, i) : l \in Lists, i \in Ids}
AllKeys == UserKeys \cup MetaKeys \cup ItemKeys
Buckets == 0..(NumBuckets - 1)
Values == 1..MaxVal

\* sha1(key)[0..1]: a fixed placement of the keys on the buckets
hashKeyToBucket(key) == (key.item + (IF key.kind = "meta" THEN 1 ELSE 0)) % NumBuckets

EmptyTree == [k \in AllKeys |-> NoRec]
NoCommit == [absent |-> TRUE]

\* a faulty variant of a commit made without staging the bucket files
MkCommit_Unstaged(tree, fs, n) == [tree |-> EmptyTree, files |-> {}, n |-> n]

\* a commit: the bucket files it holds, their records, the length of its history
MkCommit(tree, fs, n) == [tree |-> tree, files |-> fs, n |-> n]

IsLive(rec) == rec # NoRec /\ rec.deletedAt = Null

VARIABLES
  work,        \* [replica -> [key -> record]]: the records of data/*.json
  files,       \* [replica -> set of buckets]: the bucket files that exist
  gitDir,      \* [replica -> BOOLEAN]: .git exists
  hasOrigin,   \* [replica -> BOOLEAN]: the repository has the remote origin
  head,        \* [replica -> commit]: refs/heads/<branch>
  tracking,    \* [replica -> commit]: refs/remotes/origin/<branch>
  remote,      \* the branch of the shared remote repository
  clock,       \* [replica -> time]: the last value of Date.now()
  usedIds,     \* the UUIDs minted so far
  status,      \* [replica -> SyncStatus]
  writeCount,  \* [replica -> Nat]
  writeBytes,  \* [replica -> Nat]
  config,      \* [replica -> configuration]
  syncTimer,   \* [replica -> NoTimer or the handle setTimeout returned last]
  syncIntervalTimer, \* [replica -> NoTimer or the handle of the interval timer]
  timers,      \* [replica -> the timers of the runtime that are armed, and how many were made]
  corrupt,     \* [replica -> set of buckets]: the bucket files that do not parse
  logged,      \* [replica -> the messages config.logger was called with]
  calls,       \* [replica -> [1..MaxCalls -> the state of one sync() invocation]]
  ops,         \* [replica -> Nat]: local calls made (bounds the model)
  last,        \* [replica -> the last operation completed and what it returned]
  mLocal, mRemote, mOut, \* the mergers' inputs and result (merger specifications)
  pushedBy,    \* history: the replica whose push the remote branch holds
  seen,        \* history: [replica -> what its current or last sync() started from and met]
  log          \* history: the sync() calls begun and returned since the last write

storeVars == <<work, files, corrupt, writeCount, writeBytes>>
gitVars == <<gitDir, hasOrigin, head, tracking, remote>>
schedVars == <<status, config, syncTimer, syncIntervalTimer, timers, calls>>
mergeVars == <<mLocal, mRemote, mOut>>
histVars == <<pushedBy, seen, log>>
vars == <<work, files, gitDir, hasOrigin, head, tracking, remote, clock, usedIds,
          status, writeCount, writeBytes, config, syncTimer, syncIntervalTimer,
          timers, corrupt, logged, calls, ops, last, mLocal, mRemote, mOut,
          pushedBy, seen, log>>

\* Date.now(): the clock may have advanced since the last reading
NowChoices(r) == {t \in clock[r]..(clock[r] + 1) : t <= MaxTime}

FreshIds == Ids \ usedIds

\* JSON.stringify(data, null, 2) in bytes: "{}" plus something for each record
BucketBytes(w, b) == 2 + Cardinality({k \in AllKeys : hashKeyToBucket(k) = b /\ w[k] # NoRec})

\* the buckets a set of writes rewrites, one writeBucket per element of the sequence
RECURSIVE WriteCost(_, _)
WriteCost(w, bs) ==
  IF bs = <<>> THEN 0 ELSE BucketBytes(w, Head(bs)) + WriteCost(w, Tail(bs))

buildRecord(value, existing, newId, t) ==
  MkRecord(IF existing # NoRec THEN existing.id ELSE newId,
           inferType(value),
           IF existing # NoRec THEN existing.createdAt ELSE t,
           t, Null, value, FALSE, <<>>, Null)

buildListMetaRecord(order, existing, newId, t) ==
  MkRecord(IF existing # NoRec THEN existing.id ELSE newId,
           "list",
           IF existing # NoRec THEN existing.createdAt ELSE t,
           t, Null, Null, FALSE, order, Null)

markConflictLoserRecord(record, winnerId) ==
  [record EXCEPT !.conflictLoser = winnerId,
                 !.marked = IF record.type = "object" THEN TRUE ELSE record.marked]


\* ------------------------------------------------------- the sync coordinator
NoStatus == [absent |-> TRUE]
NoResult == [absent |-> TRUE]

\* one invocation of sync(): where it stands, its locals, the events it emitted
IdleCall ==
  [pc |-> "none", reason |-> "none", result |-> NoResult, fallback |-> FALSE,
   buckets |-> <<>>, local |-> EmptyTree, rem |-> EmptyTree, pending |-> <<>>,
   evStart |-> 0, evFinish |-> 0, evError |-> 0, startStatus |-> NoStatus,
   fetchError |-> "none"]

CallIds == 1..MaxCalls

ErrInFlight == "sync already in flight"
ErrNotFoundOrigin == "NotFoundError: Could not find origin/main."
ErrNotFoundBranch == "NotFoundError: Could not find main."
ErrTransport == "HttpError: transport failure"
ErrIo == "Error: EIO: i/o error, write"
ErrWrongType == "Error: WRONGTYPE Operation against a key holding the wrong kind of value"

\* message.includes('NotFoundError')
IncludesNotFound(msg) == msg \in {ErrNotFoundOrigin, ErrNotFoundBranch}

\* message.includes('origin/')
IncludesOrigin(msg) == msg = ErrNotFoundOrigin

SetCall(r, c, rec) == calls' = [calls EXCEPT ![r][c] = rec]

\* --- the timers.  A handle is the timer setTimeout or setInterval made; the
\* runtime keeps the armed ones, and n tells the timers of one instance apart.
NoTimer == [absent |-> TRUE]

NoTimers == [live |-> {}, made |-> 0]

MkTimer(kind, n, reason, minutes) ==
  [kind |-> kind, n |-> n, reason |-> reason, minutes |-> minutes]

\* clearTimeout / clearInterval: a handle that is not armed is ignored
clearTimer(table, handle) == [table EXCEPT !.live = @ \ {handle}]

\* --- history variables: what a sync() call started from and met, who pushed
\* last, and the order of the calls.  They observe the steps and guard none.
NoSeen ==
  [phase |-> "idle", before |-> EmptyTree, minted |-> {}, fetched |-> NoCommit,
   from |-> "none", conflicts |-> {}, wrote |-> NoRec]

\* a replica whose history is not kept
Unobserved == [NoSeen EXCEPT !.phase = "off"]

HistInit(s0) ==
  /\ pushedBy = "none"
  /\ seen = [r \in Replicas |-> s0]
  /\ log = <<>>

\* the step passes the gate of sync()
Began(r) == \E c \in CallIds : calls[r][c].pc = "none" /\ calls'[r][c].pc = "ensureRepo"

\* the step is a git.fetch that succeeded
Fetched(r) == \E c \in CallIds : calls[r][c].pc = "fetch" /\ calls'[r][c].pc = "enumerate"

\* the step writes a merged bucket
Merged(r) == \E c \in CallIds : calls[r][c].pc = "mergeWrite" /\ calls'[r][c].pc # "mergeWrite"

\* the step is a git.push that succeeded
Pushed(r) ==
  /\ config[r].repoUrl
  /\ \E c \in CallIds :
       \/ calls[r][c].pc = "push" /\ calls'[r][c].evFinish > calls[r][c].evFinish
       \/ /\ calls[r][c].pc = "compactPush" /\ calls'[r][c].pc = "returned"
          /\ calls'[r][c].result.success

\* the step ends a sync() call that had passed the gate
Returned(r) ==
  \E c \in CallIds : /\ calls[r][c].pc \notin {"none", "returned"}
                     /\ calls'[r][c].pc = "returned"

ReturnedOk(r) ==
  \E c \in CallIds : /\ calls[r][c].pc \notin {"none", "returned"}
                     /\ calls'[r][c].pc = "returned"
                     /\ calls'[r][c].result.success

\* the list items of the bucket being merged that are live on both sides and
\* differ in updatedAt or id
ConflictsMet(r) ==
  UNION {{[itemId |-> i, local |-> calls[r][c].local[listItemKey(TheList, i)],
           remote |-> calls[r][c].rem[listItemKey(TheList, i)]] :
            i \in {j \in Ids :
                     LET l == calls[r][c].local[listItemKey(TheList, j)]
                         m == calls[r][c].rem[listItemKey(TheList, j)]
                     IN /\ IsLive(l) /\ IsLive(m)
                        /\ (l.updatedAt # m.updatedAt \/ l.id # m.id)}} :
         c \in {d \in CallIds : calls[r][d].pc = "mergeWrite"}}

\* a step of a sync() call of replica r
SyncObserved(r) ==
  /\ pushedBy' = IF seen[r].phase # "off" /\ Pushed(r) THEN r ELSE pushedBy
  /\ seen' = [seen EXCEPT ![r] =
               IF seen[r].phase = "off" THEN @
               ELSE IF Began(r)
               THEN [phase |-> "running", before |-> work[r], minted |-> usedIds,
                     fetched |-> NoCommit, from |-> "none", conflicts |-> {},
                     wrote |-> @.wrote]
               ELSE IF Fetched(r) THEN [@ EXCEPT !.fetched = tracking'[r], !.from = pushedBy]
               ELSE IF Merged(r) THEN [@ EXCEPT !.conflicts = @ \cup ConflictsMet(r)]
               ELSE IF Returned(r)
               THEN [@ EXCEPT !.phase = IF ReturnedOk(r) THEN "ok" ELSE "error"]
               ELSE @]
  /\ log' = IF seen[r].phase = "off" THEN log
            ELSE IF Began(r) THEN Append(log, [r |-> r, ev |-> "start", changed |-> FALSE])
            ELSE IF Returned(r)
            THEN Append(log, [r |-> r, ev |-> IF ReturnedOk(r) THEN "ok" ELSE "error",
                              changed |-> work'[r] # seen[r].before])
            ELSE log

\* a local write of replica r; rec is the record a set() or lset() wrote,
\* NoRec otherwise
WriteObserved(r, rec) ==
  /\ seen' = [seen EXCEPT ![r] = IF @.phase = "off" THEN @
                                 ELSE [@ EXCEPT !.phase = "idle", !.wrote = rec]]
  /\ log' = IF seen[r].phase = "off" THEN log ELSE <<>>
  /\ UNCHANGED pushedBy


\* --- sync(): the gate, the status change and sync:start, up to the first await
\* faulty variant of sync: a rejected call records its error in the status
sync_RejectSetsError(r, c, reason) ==
  IF status[r].inFlight
  THEN /\ SetCall(r, c, [calls[r][c] EXCEPT
                           !.pc = "returned", !.reason = reason,
                           !.result = [success |-> FALSE, error |-> ErrInFlight]])
       /\ status' = [status EXCEPT ![r] = [@ EXCEPT !.lastError = ErrInFlight]]
  ELSE /\ status' = [status EXCEPT ![r] = [@ EXCEPT !.state = "syncing", !.inFlight = TRUE,
                                                    !.lastError = "none"]]
       /\ SetCall(r, c, [calls[r][c] EXCEPT !.pc = "ensureRepo", !.reason = reason,
                                            !.evStart = @ + 1,
                                            !.startStatus = status'[r]])

sync(r, c, reason) ==
  IF status[r].inFlight
  THEN /\ SetCall(r, c, [calls[r][c] EXCEPT
                           !.pc = "returned", !.reason = reason,
                           !.result = [success |-> FALSE, error |-> ErrInFlight]])
       /\ UNCHANGED status
  ELSE /\ status' = [status EXCEPT ![r] = [@ EXCEPT !.state = "syncing", !.inFlight = TRUE,
                                                    !.lastError = "none"]]
       /\ SetCall(r, c, [calls[r][c] EXCEPT !.pc = "ensureRepo", !.reason = reason,
                                            !.evStart = @ + 1,
                                            !.startStatus = status'[r]])

\* the next invocation slot of a replica
IsNextCall(r, c) ==
  /\ calls[r][c].pc = "none"
  /\ \A d \in CallIds : d < c => calls[r][d].pc # "none"

\* a manual sync() call
SyncManual(r) ==
  \E c \in CallIds :
    /\ IsNextCall(r, c)
    /\ sync(r, c, "manual")
    /\ UNCHANGED <<storeVars, gitVars, clock, usedIds, config, syncTimer, timers,
                   syncIntervalTimer, ops, last, mergeVars, logged>>
    /\ SyncObserved(r)

\* the debounce timer expires: void this.sync(reason)
SyncTimerFire(r) ==
  \E c \in CallIds : \E tm \in timers[r].live :
    /\ tm.kind = "timeout"
    /\ IsNextCall(r, c)
    /\ sync(r, c, tm.reason)
    /\ timers' = [timers EXCEPT ![r] = clearTimer(@, tm)]
    /\ UNCHANGED <<storeVars, gitVars, clock, usedIds, config, syncTimer,
                   syncIntervalTimer, ops, last, mergeVars, logged>>
    /\ SyncObserved(r)

\* the interval timer fires: void this.sync('interval')
SyncIntervalFire(r) ==
  \E c \in CallIds : \E tm \in timers[r].live :
    /\ tm.kind = "interval"
    /\ IsNextCall(r, c)
    /\ sync(r, c, "interval")
    /\ UNCHANGED <<storeVars, gitVars, clock, usedIds, config, syncTimer, timers,
                   syncIntervalTimer, ops, last, mergeVars, logged>>
    /\ SyncObserved(r)

\* --- the catch blocks of syncWithGit and sync for an error raised by a stage
\* of the pipeline: the fallback to bootstrapCommitAndPush, or state=error
\* faulty variant of syncCatch: the error leaves sync() uncaught
syncCatch_Rethrow(r, c, msg) ==
  /\ SetCall(r, c, [calls[r][c] EXCEPT !.pc = "raised"])
  /\ UNCHANGED status

syncCatch(r, c, msg) ==
  /\ status' = [status EXCEPT ![r] = [state |-> "error", inFlight |-> FALSE,
                                      lastAt |-> status[r].lastAt, lastError |-> msg]]
  /\ SetCall(r, c, [calls[r][c] EXCEPT !.pc = "returned", !.evError = @ + 1,
                                       !.result = [success |-> FALSE, error |-> msg]])

\* a faulty variant of the catch of syncWithGit that falls back on every error
syncWithGitCatch_AnyError(r, c, msg) ==
  IF ~calls[r][c].fallback
  THEN /\ SetCall(r, c, [calls[r][c] EXCEPT !.pc = "commit", !.fallback = TRUE])
       /\ UNCHANGED status
  ELSE syncCatch(r, c, msg)

syncWithGitCatch(r, c, msg) ==
  IF ~calls[r][c].fallback /\ IncludesNotFound(msg) /\ IncludesOrigin(msg)
  THEN /\ SetCall(r, c, [calls[r][c] EXCEPT !.pc = "commit", !.fallback = TRUE])
       /\ UNCHANGED status
  ELSE syncCatch(r, c, msg)

\* a faulty variant of the catch around git.fetch that rethrows every error
fetchCatch_Rethrow(r, c, msg) == syncWithGitCatch(r, c, msg)

\* the catch around git.fetch: a NotFoundError is swallowed and the pipeline
\* goes on, any other error is thrown on to the catch of syncWithGit
fetchCatch(r, c, msg) ==
  IF IncludesNotFound(msg)
  THEN /\ SetCall(r, c, [calls[r][c] EXCEPT !.pc = "enumerate", !.fetchError = msg])
       /\ UNCHANGED status
  ELSE syncWithGitCatch(r, c, msg)

\* --- ensureRepoInitialized
EnsureRepo(r, c) ==
  /\ calls[r][c].pc = "ensureRepo"
  /\ gitDir' = [gitDir EXCEPT ![r] = TRUE]
  /\ hasOrigin' = [hasOrigin EXCEPT ![r] = @ \/ config[r].repoUrl]
  /\ SetCall(r, c, [calls[r][c] EXCEPT !.pc = "ensureBranch"])
  /\ UNCHANGED <<storeVars, head, tracking, remote, clock, usedIds, status, config,
                 syncTimer, timers, syncIntervalTimer, ops, last, mergeVars, logged>>
  /\ SyncObserved(r)

\* --- ensureBranchCheckedOut.  A branch that has a commit is checked out as it
\* is (the working tree keeps its changes).  Without one, the branch is taken
\* from origin/<branch> if that ref exists; otherwise git.checkout finds neither
\* <branch> nor origin/<branch> and raises NotFoundError for origin/<branch>.
EnsureBranch(r, c) ==
  /\ calls[r][c].pc = "ensureBranch"
  /\ IF head[r] # NoCommit
     THEN /\ SetCall(r, c, [calls[r][c] EXCEPT !.pc = "fetch"])
          /\ UNCHANGED <<work, files, corrupt, head, status>>
     ELSE IF hasOrigin[r] /\ tracking[r] # NoCommit
     THEN /\ head' = [head EXCEPT ![r] = tracking[r]]
          /\ work' = [work EXCEPT ![r] =
                        [k \in AllKeys |->
                           IF hashKeyToBucket(k) \in tracking[r].files
                           THEN tracking[r].tree[k] ELSE work[r][k]]]
          /\ files' = [files EXCEPT ![r] = @ \cup tracking[r].files]
          /\ corrupt' = [corrupt EXCEPT ![r] = @ \ tracking[r].files]
          /\ SetCall(r, c, [calls[r][c] EXCEPT !.pc = "fetch"])
          /\ UNCHANGED status
     ELSE /\ syncWithGitCatch(r, c, ErrNotFoundOrigin)
          /\ UNCHANGED <<work, files, corrupt, head>>
  /\ UNCHANGED <<writeCount, writeBytes, gitDir, hasOrigin, tracking, remote, clock,
                 usedIds, config, syncTimer, timers, syncIntervalTimer, ops, last, mergeVars, logged>>
  /\ SyncObserved(r)

\* --- git.fetch of origin/<branch>: it raises NotFoundError if the remote has
\* no such branch, and may fail in the transport
Fetch(r, c) ==
  /\ calls[r][c].pc = "fetch"
  /\ IF ~config[r].repoUrl
     THEN /\ SetCall(r, c, [calls[r][c] EXCEPT !.pc = "enumerate"])
          /\ UNCHANGED <<tracking, status>>
     ELSE \/ /\ remote # NoCommit
             /\ tracking' = [tracking EXCEPT ![r] = remote]
             /\ SetCall(r, c, [calls[r][c] EXCEPT !.pc = "enumerate"])
             /\ UNCHANGED status
          \/ /\ remote = NoCommit
             /\ fetchCatch(r, c, ErrNotFoundBranch)
             /\ UNCHANGED tracking
          \/ /\ config[r].flaky
             /\ fetchCatch(r, c, ErrTransport)
             /\ UNCHANGED tracking
  /\ UNCHANGED <<storeVars, gitDir, hasOrigin, head, remote, clock, usedIds, config,
                 syncTimer, timers, syncIntervalTimer, ops, last, mergeVars, logged>>
  /\ SyncObserved(r)

\* --- sequences
RECURSIVE SortedSeq(_)
SortedSeq(S) ==
  IF S = {} THEN <<>>
  ELSE LET m == CHOOSE x \in S : \A y \in S : x <= y
       IN <<m>> \o SortedSeq(S \ {m})

Range(q) == {q[i] : i \in DOMAIN q}

IndexOf(q, x) == IF x \in Range(q) THEN CHOOSE i \in DOMAIN q : q[i] = x /\ \A j \in 1..(i - 1) : q[j] # x
                 ELSE 0

\* order.splice(i, 0, x): x becomes the element after the first i elements
InsertAt(q, i, x) == SubSeq(q, 1, i) \o <<x>> \o SubSeq(q, i + 1, Len(q))

RemoveAt(q, i) == SubSeq(q, 1, i - 1) \o SubSeq(q, i + 1, Len(q))

\* faulty variant of InsertAfterWinner: the loser always goes to the end
InsertAfterWinner_Append(order, winnerId, newItemId) == Append(order, newItemId)

\* insert after the winner, or append when the winner is not in the order
InsertAfterWinner(order, winnerId, newItemId) ==
  IF IndexOf(order, winnerId) = 0 THEN Append(order, newItemId)
  ELSE InsertAt(order, IndexOf(order, winnerId), newItemId)

\* --- listLocalBuckets, listRemoteBuckets.  The "remote" side is read with
\* ref: this.config.branch, which is the local branch refs/heads/<branch>.
listRemoteBuckets(r) ==
  IF ~config[r].repoUrl \/ head[r] = NoCommit THEN {} ELSE head[r].files

readRemoteBucket(r, b) ==
  IF ~config[r].repoUrl \/ head[r] = NoCommit THEN EmptyTree
  ELSE [k \in AllKeys |-> IF hashKeyToBucket(k) = b THEN head[r].tree[k] ELSE NoRec]

readBucket(r, b) ==
  [k \in AllKeys |-> IF hashKeyToBucket(k) = b THEN work[r][k] ELSE NoRec]

Enumerate(r, c) ==
  /\ calls[r][c].pc = "enumerate"
  /\ LET localBuckets == files[r]
         remoteBuckets == listRemoteBuckets(r)
         buckets == SortedSeq(localBuckets) \o SortedSeq(remoteBuckets \ localBuckets)
     IN SetCall(r, c, [calls[r][c] EXCEPT
                         !.buckets = buckets,
                         !.pending = <<>>,
                         !.pc = IF buckets = <<>> THEN "normalize" ELSE "mergeRead"])
  /\ UNCHANGED <<storeVars, gitVars, clock, usedIds, status, config, syncTimer, timers,
                 syncIntervalTimer, ops, last, mergeVars, logged>>
  /\ SyncObserved(r)

\* --- mergeBuckets, one bucket: the two reads ...
MergeRead(r, c) ==
  /\ calls[r][c].pc = "mergeRead"
  /\ LET b == Head(calls[r][c].buckets)
     IN SetCall(r, c, [calls[r][c] EXCEPT !.local = readBucket(r, b),
                                          !.rem = readRemoteBucket(r, b),
                                          !.pc = "mergeWrite"])
  /\ UNCHANGED <<storeVars, gitVars, clock, usedIds, status, config, syncTimer, timers,
                 syncIntervalTimer, ops, last, mergeVars, logged>>
  /\ SyncObserved(r)

\* the merged map of a bucket
mergedBucket(b, local, rem) ==
  [k \in AllKeys |->
     IF hashKeyToBucket(k) # b THEN NoRec
     ELSE IF parseListItemKey(k) # NotListItem THEN mergeListItemRecord(local[k], rem[k]).winner
     ELSE mergeRecord(local[k], rem[k])]

\* the losers of a bucket, in the order of its keys
RECURSIVE bucketLosers(_, _, _, _)
bucketLosers(b, local, rem, ids) ==
  IF ids = <<>> THEN <<>>
  ELSE LET k == listItemKey(TheList, Head(ids))
           res == mergeListItemRecord(local[k], rem[k])
           rest == bucketLosers(b, local, rem, Tail(ids))
       IN IF hashKeyToBucket(k) = b /\ res.loser # NoRec
          THEN <<[listKey |-> TheList, winnerItemId |-> Head(ids), record |-> res.loser]>> \o rest
          ELSE rest

\* ... and the write of the merged map
MergeWrite(r, c) ==
  /\ calls[r][c].pc = "mergeWrite"
  /\ LET b == Head(calls[r][c].buckets)
         merged == mergedBucket(b, calls[r][c].local, calls[r][c].rem)
         w == [k \in AllKeys |-> IF hashKeyToBucket(k) = b THEN merged[k] ELSE work[r][k]]
         pending == calls[r][c].pending
                      \o bucketLosers(b, calls[r][c].local, calls[r][c].rem, SortedSeq(Ids))
         rest == Tail(calls[r][c].buckets)
     IN /\ work' = [work EXCEPT ![r] = w]
        /\ files' = [files EXCEPT ![r] = @ \cup {b}]
        /\ corrupt' = [corrupt EXCEPT ![r] = @ \ {b}]
        /\ writeCount' = [writeCount EXCEPT ![r] = @ + 1]
        /\ writeBytes' = [writeBytes EXCEPT ![r] = @ + BucketBytes(w, b)]
        /\ SetCall(r, c, [calls[r][c] EXCEPT
                            !.buckets = rest, !.pending = pending,
                            !.local = EmptyTree, !.rem = EmptyTree,
                            !.pc = IF rest # <<>> THEN "mergeRead"
                                   ELSE IF pending # <<>> THEN "applyLosers"
                                   ELSE "normalize"])
  /\ UNCHANGED <<gitVars, clock, usedIds, status, config, syncTimer, timers,
                 syncIntervalTimer, ops, last, mergeVars, logged>>
  /\ SyncObserved(r)

\* --- the stage after mergeBuckets (applyPendingLosers or normalizeListOrders)
\* raises at its first write of a bucket file: nothing of it is written
StageFails(r, c) ==
  /\ calls[r][c].pc \in {"applyLosers", "normalize"}
  /\ syncWithGitCatch(r, c, ErrIo)
  /\ UNCHANGED <<storeVars, gitVars, clock, usedIds, config, syncTimer, timers,
                 syncIntervalTimer, ops, last, mergeVars, logged>>
  /\ SyncObserved(r)

\* --- applyPendingLosers, one loser: the sorted array is walked from its end
LoserLess(a, b) ==
  \/ a.record.updatedAt < b.record.updatedAt
  \/ a.record.updatedAt = b.record.updatedAt /\ a.record.id < b.record.id

LoserEq(a, b) == a.record.updatedAt = b.record.updatedAt /\ a.record.id = b.record.id

\* the index in pending of the last element of the (stable) sorted array
LastSorted(pending) ==
  CHOOSE i \in DOMAIN pending :
    \A j \in DOMAIN pending :
      j # i => \/ LoserLess(pending[j], pending[i])
               \/ LoserEq(pending[j], pending[i]) /\ j < i

\* a faulty variant of getListMeta that does not look at the type of the record
getListMeta_AnyType(w, listKey) ==
  LET record == w[listMetaKey(listKey)]
  IN IF record = NoRec \/ record.deletedAt # Null
     THEN [record |-> NoRec, order |-> <<>>, wrongtype |-> FALSE]
     ELSE [record |-> record,
           order |-> IF record.type = "list" THEN record.order ELSE <<>>,
           wrongtype |-> FALSE]

\* getListMeta: the live meta record and its order; "wrongtype" when it throws
getListMeta(w, listKey) ==
  LET record == w[listMetaKey(listKey)]
  IN IF record = NoRec \/ record.deletedAt # Null
     THEN [record |-> NoRec, order |-> <<>>, wrongtype |-> FALSE]
     ELSE IF record.type # "list"
     THEN [record |-> NoRec, order |-> <<>>, wrongtype |-> TRUE]
     ELSE [record |-> record, order |-> record.order, wrongtype |-> FALSE]

ApplyLoser(r, c) ==
  /\ calls[r][c].pc = "applyLosers"
  /\ LET pending == calls[r][c].pending
         i == LastSorted(pending)
         entry == pending[i]
         rest == RemoveAt(pending, i)
     IN \E newItemId \in FreshIds, t \in NowChoices(r) :
          LET newKey == listItemKey(entry.listKey, newItemId)
              loserRecord == markConflictLoserRecord(entry.record, entry.winnerItemId)
              w1 == [work[r] EXCEPT ![newKey] = loserRecord]
              meta == getListMeta(w1, entry.listKey)
              order == InsertAfterWinner(meta.order, entry.winnerItemId, newItemId)
          IN IF meta.wrongtype
             THEN /\ work' = [work EXCEPT ![r] = w1]
                  /\ files' = [files EXCEPT ![r] = @ \cup {hashKeyToBucket(newKey)}]
                  /\ corrupt' = [corrupt EXCEPT ![r] = @ \ {hashKeyToBucket(newKey)}]
                  /\ writeCount' = [writeCount EXCEPT ![r] = @ + 1]
                  /\ writeBytes' = [writeBytes EXCEPT ![r] =
                                      @ + BucketBytes(w1, hashKeyToBucket(newKey))]
                  /\ usedIds' = usedIds \cup {newItemId}
                  /\ syncWithGitCatch(r, c, ErrWrongType)
                  /\ UNCHANGED clock
             ELSE \E newMetaId \in (IF meta.record = NoRec THEN FreshIds \ {newItemId}
                                    ELSE {newItemId}) :
                    LET metaRec == buildListMetaRecord(order, meta.record, newMetaId, t)
                        w2 == [w1 EXCEPT ![listMetaKey(entry.listKey)] = metaRec]
                    IN /\ work' = [work EXCEPT ![r] = w2]
                       /\ files' = [files EXCEPT ![r] =
                                      @ \cup {hashKeyToBucket(newKey),
                                              hashKeyToBucket(listMetaKey(entry.listKey))}]
                       /\ corrupt' = [corrupt EXCEPT ![r] =
                                        @ \ {hashKeyToBucket(newKey),
                                             hashKeyToBucket(listMetaKey(entry.listKey))}]
                       /\ writeCount' = [writeCount EXCEPT ![r] = @ + 2]
                       /\ writeBytes' = [writeBytes EXCEPT ![r] =
                                           @ + BucketBytes(w1, hashKeyToBucket(newKey))
                                             + BucketBytes(w2, hashKeyToBucket(listMetaKey(entry.listKey)))]
                       /\ usedIds' = usedIds \cup {newItemId, newMetaId}
                       /\ clock' = [clock EXCEPT ![r] = t]
                       /\ SetCall(r, c, [calls[r][c] EXCEPT
                                           !.pending = rest,
                                           !.pc = IF rest = <<>> THEN "normalize"
                                                  ELSE "applyLosers"])
                       /\ UNCHANGED status
  /\ UNCHANGED <<gitVars, config, syncTimer, timers, syncIntervalTimer, ops, last, mergeVars, logged>>
  /\ SyncObserved(r)

\* --- normalizeListOrders
ItemLess(w, listKey, a, b) ==
  LET ra == w[listItemKey(listKey, a)]
      rb == w[listItemKey(listKey, b)]
  IN ra.updatedAt < rb.updatedAt \/ (ra.updatedAt = rb.updatedAt /\ a < b)

\* the item ids of S sorted by (updatedAt, itemId)
RECURSIVE SortItems(_, _, _)
SortItems(w, listKey, S) ==
  IF S = {} THEN <<>>
  ELSE LET m == CHOOSE x \in S : \A y \in S \ {x} : ItemLess(w, listKey, x, y)
       IN <<m>> \o SortItems(w, listKey, S \ {m})

RECURSIVE InsertLosers(_, _, _, _)
InsertLosers(w, listKey, order, losers) ==
  IF losers = <<>> THEN order
  ELSE InsertLosers(w, listKey,
                    InsertAfterWinner(order, w[listItemKey(listKey, Head(losers))].conflictLoser,
                                      Head(losers)),
                    Tail(losers))

\* the list meta record normalizeListOrders works from: a record of type list
\* under list:<L>, tombstoned or not
normMeta(w, listKey) ==
  LET record == w[listMetaKey(listKey)]
  IN IF record # NoRec /\ record.type = "list" THEN record ELSE NoRec

nextOrder(w, listKey) ==
  LET meta == normMeta(w, listKey)
      baseOrder == IF meta = NoRec THEN <<>> ELSE meta.order
      liveItem(itemId) == IsLive(w[listItemKey(listKey, itemId)])
      filteredBase == SelectSeq(baseOrder, liveItem)
      missing == {i \in Ids : liveItem(i) /\ i \notin Range(filteredBase)}
      losers == {i \in missing : w[listItemKey(listKey, i)].conflictLoser # Null}
      others == missing \ losers
  IN InsertLosers(w, listKey, filteredBase, SortItems(w, listKey, losers))
       \o SortItems(w, listKey, others)

\* whether normalizeListOrders writes the meta record of the list
normWrites(w, listKey) ==
  LET meta == normMeta(w, listKey)
      hasChanges == meta = NoRec \/ meta.order # nextOrder(w, listKey)
  IN hasChanges /\ (meta # NoRec \/ nextOrder(w, listKey) # <<>>)

Normalize(r, c) ==
  /\ calls[r][c].pc = "normalize"
  /\ IF normWrites(work[r], TheList)
     THEN \E t \in NowChoices(r) :
          \E newMetaId \in (IF normMeta(work[r], TheList) = NoRec THEN FreshIds ELSE {Null}) :
            LET metaRec == buildListMetaRecord(nextOrder(work[r], TheList),
                                               normMeta(work[r], TheList), newMetaId, t)
                w == [work[r] EXCEPT ![listMetaKey(TheList)] = metaRec]
                b == hashKeyToBucket(listMetaKey(TheList))
            IN /\ work' = [work EXCEPT ![r] = w]
               /\ files' = [files EXCEPT ![r] = @ \cup {b}]
               /\ corrupt' = [corrupt EXCEPT ![r] = @ \ {b}]
               /\ writeCount' = [writeCount EXCEPT ![r] = @ + 1]
               /\ writeBytes' = [writeBytes EXCEPT ![r] = @ + BucketBytes(w, b)]
               /\ usedIds' = usedIds \cup ({newMetaId} \ {Null})
               /\ clock' = [clock EXCEPT ![r] = t]
     ELSE UNCHANGED <<storeVars, usedIds, clock>>
  /\ SetCall(r, c, [calls[r][c] EXCEPT !.pc = "commit"])
  /\ UNCHANGED <<gitVars, status, config, syncTimer, timers, syncIntervalTimer, ops, last,
                 mergeVars, logged>>
  /\ SyncObserved(r)

\* --- bootstrapCommitAndPush: stageAllChanges and git.commit ...
hasChanges(r) ==
  IF head[r] = NoCommit THEN files[r] # {}
  ELSE head[r].tree # work[r] \/ head[r].files # files[r]

Commit(r, c) ==
  /\ calls[r][c].pc = "commit"
  /\ head' = [head EXCEPT ![r] =
                IF hasChanges(r)
                THEN MkCommit(work[r], files[r], IF @ = NoCommit THEN 1 ELSE @.n + 1)
                ELSE @]
  /\ SetCall(r, c, [calls[r][c] EXCEPT !.pc = "push"])
  /\ UNCHANGED <<storeVars, gitDir, hasOrigin, tracking, remote, clock, usedIds, status,
                 config, syncTimer, timers, syncIntervalTimer, ops, last, mergeVars, logged>>
  /\ SyncObserved(r)

\* maybeCompactHistory up to its first await: "skip" (nothing to do), "reset"
\* (compactHistory returned at once, the counters are reset) or "compact"
\* a faulty variant of compactDecision that does not look at writeBytes
compactDecision_CountOnly(r) ==
  IF ~config[r].historyEnabled THEN "skip"
  ELSE IF writeCount[r] < config[r].writeCountThreshold THEN "skip"
  ELSE IF ~config[r].repoUrl THEN "reset"
  ELSE "compact"

compactDecision(r) ==
  IF ~config[r].historyEnabled THEN "skip"
  ELSE IF writeCount[r] < config[r].writeCountThreshold
          /\ writeBytes[r] < config[r].writeBytesThreshold THEN "skip"
  ELSE IF ~config[r].repoUrl THEN "reset"
  ELSE "compact"

\* the rest of sync() once syncWithGit has returned: state=idle, sync:finish,
\* and maybeCompactHistory up to its first await
syncFinish(r, c, t) ==
  /\ status' = [status EXCEPT ![r] = [state |-> "idle", inFlight |-> FALSE,
                                      lastAt |-> t, lastError |-> "none"]]
  /\ clock' = [clock EXCEPT ![r] = t]
  /\ LET d == compactDecision(r)
     IN /\ SetCall(r, c, [calls[r][c] EXCEPT
                            !.evFinish = @ + 1,
                            !.pc = IF d = "compact" THEN "compactInit" ELSE "returned",
                            !.result = IF d = "compact" THEN @
                                       ELSE [success |-> TRUE, error |-> "none"]])
        /\ writeCount' = [writeCount EXCEPT ![r] = IF d = "reset" THEN 0 ELSE @]
        /\ writeBytes' = [writeBytes EXCEPT ![r] = IF d = "reset" THEN 0 ELSE @]

\* an error raised by bootstrapCommitAndPush: inside the fallback it leaves
\* syncWithGit as it is, otherwise it goes through the catch of syncWithGit
pushCatch(r, c, msg) ==
  IF calls[r][c].fallback THEN syncCatch(r, c, msg) ELSE syncWithGitCatch(r, c, msg)

\* ... and the forced git.push.  A branch without a commit cannot be pushed.
Push(r, c) ==
  /\ calls[r][c].pc = "push"
  /\ IF ~config[r].repoUrl
     THEN /\ \E t \in NowChoices(r) : syncFinish(r, c, t)
          /\ UNCHANGED <<tracking, remote>>
     ELSE IF head[r] = NoCommit
     THEN /\ pushCatch(r, c, ErrNotFoundBranch)
          /\ UNCHANGED <<tracking, remote, clock, writeCount, writeBytes>>
     ELSE \/ /\ remote' = head[r]
             /\ tracking' = [tracking EXCEPT ![r] = head[r]]
             /\ \E t \in NowChoices(r) : syncFinish(r, c, t)
          \/ /\ config[r].flaky
             /\ pushCatch(r, c, ErrTransport)
             /\ UNCHANGED <<tracking, remote, clock, writeCount, writeBytes>>
  /\ UNCHANGED <<work, files, corrupt, gitDir, hasOrigin, head, usedIds, config, syncTimer, timers,
                 syncIntervalTimer, ops, last, mergeVars, logged>>
  /\ SyncObserved(r)

\* --- compactHistory: remove .git, init, add origin, stage and commit ...
CompactInit(r, c) ==
  /\ calls[r][c].pc = "compactInit"
  /\ gitDir' = [gitDir EXCEPT ![r] = TRUE]
  /\ hasOrigin' = [hasOrigin EXCEPT ![r] = TRUE]
  /\ head' = [head EXCEPT ![r] = MkCommit(work[r], files[r], 1)]
  /\ tracking' = [tracking EXCEPT ![r] = NoCommit]
  /\ SetCall(r, c, [calls[r][c] EXCEPT !.pc = "compactPush"])
  /\ UNCHANGED <<storeVars, remote, clock, usedIds, status, config, syncTimer, timers,
                 syncIntervalTimer, ops, last, mergeVars, logged>>
  /\ SyncObserved(r)

\* ... and the forced push; then maybeCompactHistory resets the counters.  A
\* failure is caught by sync(): state=error and sync:error.
CompactPush(r, c) ==
  /\ calls[r][c].pc = "compactPush"
  /\ \/ /\ head[r] # NoCommit
        /\ remote' = head[r]
        /\ tracking' = [tracking EXCEPT ![r] = head[r]]
        /\ writeCount' = [writeCount EXCEPT ![r] = 0]
        /\ writeBytes' = [writeBytes EXCEPT ![r] = 0]
        /\ SetCall(r, c, [calls[r][c] EXCEPT
                            !.pc = "returned",
                            !.result = [success |-> TRUE, error |-> "none"]])
        /\ UNCHANGED status
     \/ /\ config[r].flaky
        /\ syncCatch(r, c, ErrTransport)
        /\ UNCHANGED <<tracking, remote, writeCount, writeBytes>>
  /\ UNCHANGED <<work, files, corrupt, gitDir, hasOrigin, head, clock, usedIds, config, syncTimer, timers,
                 syncIntervalTimer, ops, last, mergeVars, logged>>
  /\ SyncObserved(r)

\* ------------------------------------------------------------ local operations
MsgWrongType == "WRONGTYPE Operation against a key holding the wrong kind of value"
MsgIndexOutOfRange == "index out of range"

\* a call that has completed: its arguments after the key (arg), and the value
\* (null is Null) or the array it returned, or the error it threw
Ok(op, value) ==
  [op |-> op, arg |-> Null, ok |-> TRUE, value |-> value, array |-> FALSE, many |-> <<>>,
   error |-> "none"]

OkMany(op, many) ==
  [op |-> op, arg |-> Null, ok |-> TRUE, value |-> Null, array |-> TRUE, many |-> many,
   error |-> "none"]

Threw(op, error) ==
  [op |-> op, arg |-> Null, ok |-> FALSE, value |-> Null, array |-> FALSE, many |-> <<>>,
   error |-> error]

WithArg(result, arg) == [result EXCEPT !.arg = arg]

\* set and lset return nothing
Wrote(op, arg) == WithArg(Ok(op, Null), arg)

\* scheduleSync on the field this.syncTimer and the timers of the runtime:
\* clear the timer of the field, arm a new one and keep its handle
\* a faulty variant of rearm that leaves the timer of the field running
rearm_NoClear(cfg, ts, reason) ==
  IF ~cfg.autoSync \/ ~cfg.syncOnChange THEN ts
  ELSE LET t == MkTimer("timeout", ts.table.made + 1, reason, 0)
       IN [field |-> t,
           table |-> [live |-> ts.table.live \cup {t}, made |-> ts.table.made + 1]]

rearm(cfg, ts, reason) ==
  IF ~cfg.autoSync \/ ~cfg.syncOnChange THEN ts
  ELSE LET cleared == IF ts.field # NoTimer THEN clearTimer(ts.table, ts.field) ELSE ts.table
           t == MkTimer("timeout", cleared.made + 1, reason, 0)
       IN [field |-> t,
           table |-> [live |-> cleared.live \cup {t}, made |-> cleared.made + 1]]

\* the scheduleSync calls of one handler, in order
RECURSIVE rearmAll(_, _, _)
rearmAll(cfg, ts, reasons) ==
  IF reasons = <<>> THEN ts
  ELSE rearmAll(cfg, rearm(cfg, ts, Head(reasons)), Tail(reasons))

scheduleSyncs(r, reasons) ==
  LET ts == rearmAll(config[r], [field |-> syncTimer[r], table |-> timers[r]], reasons)
  IN /\ syncTimer' = [syncTimer EXCEPT ![r] = ts.field]
     /\ timers' = [timers EXCEPT ![r] = ts.table]

scheduleSync(r, reason) == scheduleSyncs(r, <<reason>>)

\* the effect of a handler's writeBucket calls on the store: the new records,
\* and the buckets written, in order
Written(r, w, bs) ==
  /\ work' = [work EXCEPT ![r] = w]
  /\ files' = [files EXCEPT ![r] = @ \cup Range(bs)]
  /\ corrupt' = [corrupt EXCEPT ![r] = @ \ Range(bs)]
  /\ writeCount' = [writeCount EXCEPT ![r] = @ + Len(bs)]
  /\ writeBytes' = [writeBytes EXCEPT ![r] = @ + WriteCost(w, bs)]

\* a faulty variant of delRecord that leaves updatedAt as it was
delRecord_KeepUpdatedAt(existing, newId, ts) ==
  MkRecord(IF existing # NoRec THEN existing.id ELSE newId,
           IF existing # NoRec THEN existing.type ELSE "string",
           IF existing # NoRec THEN existing.createdAt ELSE ts,
           IF existing # NoRec THEN existing.updatedAt ELSE ts,
           ts,
           IF existing # NoRec THEN existing.value ELSE Null,
           IF existing # NoRec THEN existing.marked ELSE FALSE,
           IF existing # NoRec THEN existing.order ELSE <<>>,
           Null)

\* the tombstone del() writes
delRecord(existing, newId, ts) ==
  MkRecord(IF existing # NoRec THEN existing.id ELSE newId,
           IF existing # NoRec THEN existing.type ELSE "string",
           IF existing # NoRec THEN existing.createdAt ELSE ts,
           ts, ts,
           IF existing # NoRec THEN existing.value ELSE Null,
           IF existing # NoRec THEN existing.marked ELSE FALSE,
           IF existing # NoRec THEN existing.order ELSE <<>>,
           Null)

Set(r, key, value) ==
  /\ ops[r] < MaxOps
  /\ \E t \in NowChoices(r) :
     \E newId \in (IF work[r][key] = NoRec THEN FreshIds ELSE {Null}) :
       /\ Written(r, [work[r] EXCEPT ![key] = buildRecord(value, work[r][key], newId, t)],
                  <<hashKeyToBucket(key)>>)
       /\ usedIds' = usedIds \cup ({newId} \ {Null})
       /\ clock' = [clock EXCEPT ![r] = t]
  /\ scheduleSync(r, "set")
  /\ ops' = [ops EXCEPT ![r] = @ + 1]
  /\ last' = [last EXCEPT ![r] = Wrote("set", value)]
  /\ UNCHANGED <<gitVars, status, config, syncIntervalTimer, calls, mergeVars, logged>>
  /\ WriteObserved(r, work'[r][key])

Del(r, key) ==
  /\ ops[r] < MaxOps
  /\ \E t \in NowChoices(r) :
     \E newId \in (IF work[r][key] = NoRec THEN FreshIds ELSE {Null}) :
       /\ Written(r, [work[r] EXCEPT ![key] = delRecord(work[r][key], newId, t)],
                  <<hashKeyToBucket(key)>>)
       /\ usedIds' = usedIds \cup ({newId} \ {Null})
       /\ clock' = [clock EXCEPT ![r] = t]
  /\ scheduleSync(r, "del")
  /\ ops' = [ops EXCEPT ![r] = @ + 1]
  /\ last' = [last EXCEPT ![r] = Ok("del", Null)]
  /\ UNCHANGED <<gitVars, status, config, syncIntervalTimer, calls, mergeVars, logged>>
  /\ WriteObserved(r, NoRec)

\* a list operation that throws (WRONGTYPE, index out of range) before writing
\* a faulty variant of Throws that calls scheduleSync before it throws
Throws_AfterScheduling(r, op, arg, error) ==
  /\ ops' = [ops EXCEPT ![r] = @ + 1]
  /\ last' = [last EXCEPT ![r] = WithArg(Threw(op, error), arg)]
  /\ scheduleSyncs(r, <<op>>)
  /\ UNCHANGED <<storeVars, gitVars, clock, usedIds, status, config, syncIntervalTimer, calls,
                 mergeVars, logged, histVars>>

Throws(r, op, arg, error) ==
  /\ ops' = [ops EXCEPT ![r] = @ + 1]
  /\ last' = [last EXCEPT ![r] = WithArg(Threw(op, error), arg)]
  /\ UNCHANGED <<storeVars, gitVars, clock, usedIds, schedVars, mergeVars, logged, histVars>>

\* a call that returns without having written anything
Returns(r, result) ==
  /\ ops' = [ops EXCEPT ![r] = @ + 1]
  /\ last' = [last EXCEPT ![r] = result]
  /\ UNCHANGED <<storeVars, gitVars, clock, usedIds, schedVars, mergeVars, logged, histVars>>

\* a faulty variant of Reverse that keeps the order
Reverse_Keep(q) == q

Reverse(q) == [i \in DOMAIN q |-> q[Len(q) + 1 - i]]

\* the ids a push may mint for n values: an item id and a record id for each
PushIds(n) ==
  {ids \in [1..(2 * n) -> FreshIds] : \A i, j \in 1..(2 * n) : i # j => ids[i] # ids[j]}

\* the loop of lpush / rpush: setRecord of one item record for each value
RECURSIVE pushItems(_, _, _, _, _)
pushItems(acc, key, values, ids, t) ==
  IF values = <<>> THEN acc
  ELSE LET itemKey == listItemKey(key, ids[1])
       IN pushItems([w |-> [acc.w EXCEPT ![itemKey] = buildRecord(Head(values), NoRec, ids[2], t)],
                     bs |-> Append(acc.bs, hashKeyToBucket(itemKey)),
                     items |-> Append(acc.items, ids[1])],
                    key, Tail(values), SubSeq(ids, 3, Len(ids)), t)

\* lpush / rpush: without values the length of the order; otherwise the item
\* records, then the meta record with the ids put before or after the order.
\* ids and metaId are the UUIDs makeId returns during the call.
PushValues(r, key, values, left, ids, metaId) ==
  /\ ops[r] < MaxOps
  /\ LET meta == getListMeta(work[r], key)
         opName == IF left THEN "lpush" ELSE "rpush"
     IN IF meta.wrongtype THEN Throws(r, opName, values, MsgWrongType)
        ELSE IF values = <<>> THEN Returns(r, WithArg(Ok(opName, Len(meta.order)), values))
        ELSE /\ ids \in PushIds(Len(values))
             /\ metaId \in (IF meta.record = NoRec THEN FreshIds \ Range(ids) ELSE {Null})
             /\ \E t \in NowChoices(r) :
                  LET pushed == pushItems([w |-> work[r], bs |-> <<>>, items |-> <<>>],
                                          key, values, ids, t)
                      order == IF left THEN Reverse(pushed.items) \o meta.order
                               ELSE meta.order \o pushed.items
                      w2 == [pushed.w EXCEPT ![listMetaKey(key)] =
                               buildListMetaRecord(order, meta.record, metaId, t)]
                  IN /\ Written(r, w2, Append(pushed.bs, hashKeyToBucket(listMetaKey(key))))
                     /\ usedIds' = usedIds \cup ((Range(ids) \cup {metaId}) \ {Null})
                     /\ clock' = [clock EXCEPT ![r] = t]
                     /\ last' = [last EXCEPT ![r] = WithArg(Ok(opName, Len(order)), values)]
             /\ scheduleSync(r, opName)
             /\ ops' = [ops EXCEPT ![r] = @ + 1]
             /\ UNCHANGED <<gitVars, status, config, syncIntervalTimer, calls, mergeVars, logged>>
             /\ WriteObserved(r, NoRec)

LPush(r, key, values) ==
  \E ids \in PushIds(Len(values)), metaId \in FreshIds \cup {Null} :
    PushValues(r, key, values, TRUE, ids, metaId)

RPush(r, key, values) ==
  \E ids \in PushIds(Len(values)), metaId \in FreshIds \cup {Null} :
    PushValues(r, key, values, FALSE, ids, metaId)

\* lset
LSet(r, key, index, value) ==
  /\ ops[r] < MaxOps
  /\ LET meta == getListMeta(work[r], key)
         length == Len(meta.order)
         normalized == IF index < 0 THEN length + index ELSE index
     IN IF meta.wrongtype THEN Throws(r, "lset", <<index, value>>, MsgWrongType)
        ELSE IF normalized < 0 \/ normalized >= length
        THEN Throws(r, "lset", <<index, value>>, MsgIndexOutOfRange)
        ELSE LET itemKey == listItemKey(key, meta.order[normalized + 1])
                 existing == work[r][itemKey]
             IN IF ~IsLive(existing) THEN Throws(r, "lset", <<index, value>>, MsgIndexOutOfRange)
                ELSE /\ \E t \in NowChoices(r) :
                          /\ Written(r, [work[r] EXCEPT ![itemKey] =
                                           buildRecord(value, existing, Null, t)],
                                     <<hashKeyToBucket(itemKey)>>)
                          /\ clock' = [clock EXCEPT ![r] = t]
                          /\ WriteObserved(r, buildRecord(value, existing, Null, t))
                     /\ scheduleSync(r, "lset")
                     /\ ops' = [ops EXCEPT ![r] = @ + 1]
                     /\ last' = [last EXCEPT ![r] = Wrote("lset", <<index, value>>)]
                     /\ UNCHANGED <<gitVars, usedIds, status, config, syncIntervalTimer,
                                    calls, mergeVars, logged>>

\* the loop of lpop / rpop: ids are taken off the order, from its head or its
\* tail, until count of them had a live record; each of those is deleted
RECURSIVE popItems(_, _, _, _, _)
popItems(acc, key, count, t, left) ==
  IF ~(Len(acc.results) < count /\ acc.order # <<>>) THEN acc
  ELSE LET itemId == IF left THEN Head(acc.order) ELSE acc.order[Len(acc.order)]
           rest == IF left THEN Tail(acc.order) ELSE SubSeq(acc.order, 1, Len(acc.order) - 1)
           itemKey == listItemKey(key, itemId)
           itemRecord == acc.w[itemKey]
       IN IF ~IsLive(itemRecord)
          THEN popItems([acc EXCEPT !.order = rest], key, count, t, left)
          ELSE popItems([w |-> [acc.w EXCEPT ![itemKey] = delRecord(itemRecord, Null, t)],
                         order |-> rest,
                         results |-> Append(acc.results, itemRecord.value),
                         bs |-> Append(acc.bs, hashKeyToBucket(itemKey))],
                        key, count, t, left)

\* lpop / rpop: nothing is written for an empty order; otherwise the items
\* popped are deleted and the shortened order is written back
PopValues(r, key, count, left) ==
  /\ ops[r] < MaxOps
  /\ LET meta == getListMeta(work[r], key)
         opName == IF left THEN "lpop" ELSE "rpop"
     IN IF meta.wrongtype THEN Throws(r, opName, count, MsgWrongType)
        ELSE IF meta.order = <<>>
        THEN Returns(r, WithArg(IF count <= 1 THEN Ok(opName, Null) ELSE OkMany(opName, <<>>),
                                count))
        ELSE /\ \E t \in NowChoices(r) :
                  LET popped == popItems([w |-> work[r], order |-> meta.order,
                                          results |-> <<>>, bs |-> <<>>],
                                         key, count, t, left)
                      w2 == [popped.w EXCEPT ![listMetaKey(key)] =
                               buildListMetaRecord(popped.order, meta.record, Null, t)]
                  IN /\ Written(r, w2, Append(popped.bs, hashKeyToBucket(listMetaKey(key))))
                     /\ clock' = [clock EXCEPT ![r] = t]
                     /\ scheduleSyncs(r, [i \in DOMAIN popped.results |-> "del"] \o <<opName>>)
                     /\ last' = [last EXCEPT ![r] =
                                   WithArg(IF count <= 1
                                           THEN Ok(opName, IF popped.results = <<>> THEN Null
                                                           ELSE popped.results[1])
                                           ELSE OkMany(opName, popped.results),
                                           count)]
             /\ ops' = [ops EXCEPT ![r] = @ + 1]
             /\ UNCHANGED <<gitVars, usedIds, status, config, syncIntervalTimer, calls,
                            mergeVars, logged>>
             /\ WriteObserved(r, NoRec)

LPop(r, key, count) == PopValues(r, key, count, TRUE)

RPop(r, key, count) == PopValues(r, key, count, FALSE)

\* --- reads
get(r, key) == IF IsLive(work[r][key]) THEN work[r][key].value ELSE Null

has(r, key) == IsLive(work[r][key])

\* meta()
metaRecord(r, key) == work[r][key]

NullType == "null"

type(r, key) == IF ~IsLive(metaRecord(r, key)) THEN NullType ELSE metaRecord(r, key).type

\* a get() call, completed; arg is the key read
Get(r, key) ==
  /\ ops[r] < MaxOps
  /\ Returns(r, WithArg(Ok("get", get(r, key)), key))

\* listAllKeys: the keys of the bucket files whose record is not deleted (the
\* order of the array is left out)
listAllKeys(r) ==
  {k \in AllKeys : hashKeyToBucket(k) \in files[r] /\ work[r][k] # NoRec
                   /\ work[r][k].deletedAt = Null}

\* patternToRegex(pattern).test(key) for no pattern or "*", the regular
\* expression /^.*$/: without the s flag . matches no line terminator, and
\* without the m flag ^ and $ match at the ends of the key only
matchesAll(key) == key.name \notin LineBreakNames

\* keys() and keys("*")
keys(r) == {k \in listAllKeys(r) : matchesAll(k)}

\* the keys of scan(0, "*", count) with count at least the number of keys
scan(r) == {k \in listAllKeys(r) : matchesAll(k)}

\* patternToRegex(pattern).test(key) for the patterns "*", "k" and "list:*":
\* the expressions /^.*$/, /^k$/ and /^list:.*$/
Patterns == {"*", "k", "list:*"}

matches(pattern, key) ==
  CASE pattern = "*" -> matchesAll(key)
    [] pattern = "k" -> key = PlainKey("k")
    [] pattern = "list:*" -> key.kind \in {"meta", "item"} /\ matchesAll(key)

\* keys.sort(): the order of the key strings "a\nb" < "k" < "list:L" <
\* "list:L:item:<uuid>", the item keys in the order of their UUIDs
KeyRank(key) ==
  IF key.kind = "plain" THEN (IF key.name \in LineBreakNames THEN 0 ELSE 1)
  ELSE IF key.kind = "meta" THEN 2
  ELSE 2 + key.item

RECURSIVE SortedKeys(_)
SortedKeys(S) ==
  IF S = {} THEN <<>>
  ELSE LET first == CHOOSE k \in S : \A other \in S : KeyRank(k) <= KeyRank(other)
       IN <<first>> \o SortedKeys(S \ {first})

\* scan(cursor, pattern, count): a slice of the sorted matching keys and the
\* cursor of the next slice, 0 when the slice reaches the end
scanFrom(r, cursor, pattern, count) ==
  LET all == SortedKeys({k \in listAllKeys(r) : matches(pattern, k)})
      to == IF cursor + count < Len(all) THEN cursor + count ELSE Len(all)
      next == IF cursor < to THEN SubSeq(all, cursor + 1, to) ELSE <<>>
      nextCursor == cursor + Len(next)
  IN [cursor |-> IF nextCursor >= Len(all) THEN 0 ELSE nextCursor, keys |-> next]

Scan(r, cursor, pattern, count) ==
  /\ ops[r] < MaxOps
  /\ LET page == scanFrom(r, cursor, pattern, count)
     IN Returns(r, WithArg([OkMany("scan", page.keys) EXCEPT !.value = page.cursor],
                           <<cursor, pattern, count>>))

\* the keys of list("", limit) with limit at least the number of keys
list(r) == listAllKeys(r)

\* the environment leaves bytes in a bucket file that do not parse; last
\* tells that no call has completed since
CorruptBucket(r, b) ==
  /\ ops[r] < MaxOps
  /\ b \notin corrupt[r]
  /\ work' = [work EXCEPT ![r] = [k \in AllKeys |-> IF hashKeyToBucket(k) = b THEN NoRec ELSE @[k]]]
  /\ files' = [files EXCEPT ![r] = @ \cup {b}]
  /\ corrupt' = [corrupt EXCEPT ![r] = @ \cup {b}]
  /\ ops' = [ops EXCEPT ![r] = @ + 1]
  /\ last' = [last EXCEPT ![r] = Ok("none", Null)]
  /\ UNCHANGED <<writeCount, writeBytes, gitVars, clock, usedIds, schedVars, mergeVars,
                 logged, histVars>>

\* llen
llen(r, key) ==
  LET meta == getListMeta(work[r], key)
  IN IF meta.wrongtype THEN Threw("llen", MsgWrongType) ELSE Ok("llen", Len(meta.order))

\* lrange: the values of the live items of the slice from start to stop
lrange(r, key, start, stop) ==
  LET meta == getListMeta(work[r], key)
      length == Len(meta.order)
      from0 == IF start < 0 THEN length + start ELSE start
      to0 == IF stop < 0 THEN length + stop ELSE stop
      from == IF from0 < 0 THEN 0 ELSE from0
      to == IF to0 >= length THEN length - 1 ELSE to0
      liveItem(itemId) == IsLive(work[r][listItemKey(key, itemId)])
      slice == SelectSeq(SubSeq(meta.order, from + 1, to + 1), liveItem)
  IN IF meta.wrongtype THEN Threw("lrange", MsgWrongType)
     ELSE IF length = 0 \/ from > to THEN OkMany("lrange", <<>>)
     ELSE OkMany("lrange", [i \in DOMAIN slice |-> work[r][listItemKey(key, slice[i])].value])

\* lindex
lindex(r, key, index) ==
  LET meta == getListMeta(work[r], key)
      length == Len(meta.order)
      normalized == IF index < 0 THEN length + index ELSE index
  IN IF meta.wrongtype THEN Threw("lindex", MsgWrongType)
     ELSE IF length = 0 \/ normalized < 0 \/ normalized >= length THEN Ok("lindex", Null)
     ELSE LET itemRecord == work[r][listItemKey(key, meta.order[normalized + 1])]
          IN Ok("lindex", IF IsLive(itemRecord) THEN itemRecord.value ELSE Null)

\* lmeta
lmeta(r, key) ==
  LET meta == getListMeta(work[r], key)
  IN IF meta.wrongtype THEN Threw("lmeta", MsgWrongType)
     ELSE IF meta.record = NoRec THEN Ok("lmeta", Null)
     ELSE Ok("lmeta", [order |-> meta.order, createdAt |-> meta.record.createdAt,
                       updatedAt |-> meta.record.updatedAt])

\* litems: the live items of the order, each with its id, value and markers
litems(r, key) ==
  LET order == getListMeta(work[r], key).order
      liveItem(itemId) == IsLive(work[r][listItemKey(key, itemId)])
      shown == SelectSeq(order, liveItem)
  IN [i \in DOMAIN shown |->
        LET record == work[r][listItemKey(key, shown[i])]
        IN [itemId |-> shown[i], value |-> record.value,
            marked |-> record.marked \/ (record.conflictLoser # Null /\ record.type = "object"),
            conflictLoser |-> record.conflictLoser]]

\* the outcome of a litems call
litemsCall(r, key) ==
  IF getListMeta(work[r], key).wrongtype THEN Threw("litems", MsgWrongType)
  ELSE OkMany("litems", litems(r, key))

\* a faulty variant of setupSyncInterval that keeps a running interval timer
setupSyncInterval_KeepOld(cfg, ts) ==
  IF ~cfg.autoSync \/ cfg.syncIntervalMinutes <= 0
  THEN [field |-> NoTimer,
        table |-> IF ts.field # NoTimer THEN clearTimer(ts.table, ts.field) ELSE ts.table]
  ELSE IF ts.field # NoTimer THEN ts
  ELSE LET t == MkTimer("interval", ts.table.made + 1, "interval", cfg.syncIntervalMinutes)
       IN [field |-> t,
           table |-> [live |-> ts.table.live \cup {t}, made |-> ts.table.made + 1]]

\* setConfig: the fields next gives (those that are not undefined) replace the
\* current ones, then setupSyncInterval runs
ConfigFields == {"repoUrl", "autoSync", "syncOnChange", "syncIntervalMinutes", "historyEnabled",
                 "writeCountThreshold", "writeBytesThreshold"}

setupSyncInterval(cfg, ts) ==
  LET cleared == IF ts.field # NoTimer THEN clearTimer(ts.table, ts.field) ELSE ts.table
  IN IF ~cfg.autoSync \/ cfg.syncIntervalMinutes <= 0
     THEN [field |-> NoTimer, table |-> cleared]
     ELSE LET t == MkTimer("interval", cleared.made + 1, "interval", cfg.syncIntervalMinutes)
          IN [field |-> t,
              table |-> [live |-> cleared.live \cup {t}, made |-> cleared.made + 1]]

SetConfig(r, given, next) ==
  /\ ops[r] < MaxOps
  /\ given \subseteq ConfigFields
  /\ LET cfg == [f \in DOMAIN config[r] |-> IF f \in given THEN next[f] ELSE config[r][f]]
         ts == setupSyncInterval(cfg, [field |-> syncIntervalTimer[r], table |-> timers[r]])
     IN /\ config' = [config EXCEPT ![r] = cfg]
        /\ syncIntervalTimer' = [syncIntervalTimer EXCEPT ![r] = ts.field]
        /\ timers' = [timers EXCEPT ![r] = ts.table]
  /\ ops' = [ops EXCEPT ![r] = @ + 1]
  /\ last' = [last EXCEPT ![r] = Ok("setConfig", Null)]
  /\ UNCHANGED <<storeVars, gitVars, clock, usedIds, status, syncTimer, calls, mergeVars,
                 logged, histVars>>

\* ------------------------------------------------------------- specifications
\* the configuration, and with it whether the transport to repoUrl may fail
MkConfig(repoUrl, flaky, autoSync, syncOnChange, minutes, enabled, countThreshold, bytesThreshold) ==
  [repoUrl |-> repoUrl, flaky |-> flaky, autoSync |-> autoSync, syncOnChange |-> syncOnChange,
   syncIntervalMinutes |-> minutes, historyEnabled |-> enabled,
   writeCountThreshold |-> countThreshold, writeBytesThreshold |-> bytesThreshold]

\* setupSyncInterval on the field this.syncIntervalTimer and the timers of the
\* runtime: clear the interval of the field, then make the one cfg asks for
\* the state after new GitStorage(cfg) on every replica, over empty directories
\* and an empty remote repository, with the clocks at t0 and the UUIDs used0
\* already minted elsewhere
InitWith(cfg, t0, used0) ==
  /\ work = [r \in Replicas |-> EmptyTree]
  /\ files = [r \in Replicas |-> {}]
  /\ gitDir = [r \in Replicas |-> FALSE]
  /\ hasOrigin = [r \in Replicas |-> FALSE]
  /\ head = [r \in Replicas |-> NoCommit]
  /\ tracking = [r \in Replicas |-> NoCommit]
  /\ remote = NoCommit
  /\ clock = [r \in Replicas |-> t0]
  /\ usedIds = used0
  /\ status = [r \in Replicas |->
                 [state |-> "idle", inFlight |-> FALSE, lastAt |-> Null, lastError |-> "none"]]
  /\ writeCount = [r \in Replicas |-> 0]
  /\ writeBytes = [r \in Replicas |-> 0]
  /\ config = [r \in Replicas |-> cfg]
  /\ syncTimer = [r \in Replicas |-> NoTimer]
  /\ syncIntervalTimer = [r \in Replicas |->
                            setupSyncInterval(cfg, [field |-> NoTimer, table |-> NoTimers]).field]
  /\ timers = [r \in Replicas |->
                 setupSyncInterval(cfg, [field |-> NoTimer, table |-> NoTimers]).table]
  /\ corrupt = [r \in Replicas |-> {}]
  /\ logged = [r \in Replicas |-> {}]
  /\ calls = [r \in Replicas |-> [c \in CallIds |-> IdleCall]]
  /\ ops = [r \in Replicas |-> 0]
  /\ last = [r \in Replicas |-> Ok("none", Null)]

MergeIdle ==
  /\ mLocal = NoRec
  /\ mRemote = NoRec
  /\ mOut = [op |-> "none"]

\* the steps of a sync() invocation after its first await, where no list item
\* is ever in conflict
PlainSyncStep(r) ==
  \E c \in CallIds :
    \/ EnsureRepo(r, c)
    \/ EnsureBranch(r, c)
    \/ Fetch(r, c)
    \/ Enumerate(r, c)
    \/ MergeRead(r, c)
    \/ MergeWrite(r, c)
    \/ Normalize(r, c)
    \/ Commit(r, c)
    \/ Push(r, c)
    \/ CompactInit(r, c)
    \/ CompactPush(r, c)

\* the steps of a sync() invocation after its first await
SyncStep(r) ==
  \E c \in CallIds :
    \/ EnsureRepo(r, c)
    \/ EnsureBranch(r, c)
    \/ Fetch(r, c)
    \/ Enumerate(r, c)
    \/ MergeRead(r, c)
    \/ MergeWrite(r, c)
    \/ ApplyLoser(r, c)
    \/ Normalize(r, c)
    \/ Commit(r, c)
    \/ Push(r, c)
    \/ CompactInit(r, c)
    \/ CompactPush(r, c)

\* no sync() invocation of the replica is running
Quiescent(r) == \A c \in CallIds : calls[r][c].pc \in {"none", "returned"}

\* --- one instance with timers and compaction: the default specification
WriteCountThreshold == 1
WriteBytesThreshold == 100

Init ==
  /\ InitWith(MkConfig(TRUE, TRUE, TRUE, TRUE, 1, TRUE, WriteCountThreshold, WriteBytesThreshold),
              1, Ids \ {1})
  /\ MergeIdle
  /\ HistInit(Unobserved)

Next ==
  \/ \E v \in Values : ops["A"] < 1 /\ Set("A", PlainKey("k"), v)
  \/ SyncManual("A")
  \/ SyncTimerFire("A")
  \/ SyncIntervalFire("A")
  \/ PlainSyncStep("A")

Spec == Init /\ [][Next]_vars


\* --- the mergers on their own: every pair of records of one key, each side
\* absent, live or a tombstone, with finite and non-finite updatedAt
MergeInputs ==
  {NoRec} \cup
  {MkRecord(id, inferType(v), 1, u, d, v, FALSE, <<>>, Null) :
     id \in 1..MaxMergeId, u \in {NonFinite} \cup 1..MaxMergeTime,
     d \in {Null} \cup 1..MaxMergeTime, v \in Values}

InitMerge ==
  /\ InitWith(MkConfig(TRUE, TRUE, FALSE, FALSE, 0, TRUE, WriteCountThreshold, WriteBytesThreshold),
              1, {})
  /\ mLocal \in MergeInputs
  /\ mRemote \in MergeInputs
  /\ mOut = [op |-> "none"]
  /\ HistInit(Unobserved)

DoMergeRecord ==
  /\ mOut.op = "none"
  /\ mOut' = [op |-> "mergeRecord", winner |-> mergeRecord(mLocal, mRemote), loser |-> NoRec]
  /\ UNCHANGED <<storeVars, gitVars, clock, usedIds, schedVars, ops, last, mLocal, mRemote,
                 logged, histVars>>

DoMergeListItemRecord ==
  /\ mOut.op = "none"
  /\ mOut' = [op |-> "mergeListItemRecord",
              winner |-> mergeListItemRecord(mLocal, mRemote).winner,
              loser |-> mergeListItemRecord(mLocal, mRemote).loser]
  /\ UNCHANGED <<storeVars, gitVars, clock, usedIds, schedVars, ops, last, mLocal, mRemote,
                 logged, histVars>>

\* the result of mergeRecord merged with the same remote record once more
DoMergeRecordAgain ==
  /\ mOut.op = "mergeRecord"
  /\ mOut' = [op |-> "mergeRecordAgain", first |-> mOut.winner,
              winner |-> mergeRecord(mOut.winner, mRemote), loser |-> NoRec]
  /\ UNCHANGED <<storeVars, gitVars, clock, usedIds, schedVars, ops, last, mLocal, mRemote,
                 logged, histVars>>

\* the same pair merged by the other replica: its local record is this one's
\* remote record
DoMergeRecordSwapped ==
  /\ mOut.op = "mergeRecord"
  /\ mOut' = [op |-> "mergeRecordSwapped", first |-> mOut.winner,
              winner |-> mergeRecord(mRemote, mLocal), loser |-> NoRec]
  /\ UNCHANGED <<storeVars, gitVars, clock, usedIds, schedVars, ops, last, mLocal, mRemote,
                 logged, histVars>>

NextMerge ==
  DoMergeRecord \/ DoMergeListItemRecord \/ DoMergeRecordAgain \/ DoMergeRecordSwapped

SpecMerge == InitMerge /\ [][NextMerge]_vars

\* no sync() invocation is running on any replica
AllQuiescent == \A r \in Replicas : Quiescent(r)

\* --- two replicas over one remote, one call at a time, each awaited before the
\* next: set and del of the key k, and sync
KvIds == 2
KvOps == 1
KvRounds == 3

\* the sync() calls made so far, on all replicas
RoundsMade == Cardinality({rc \in Replicas \X CallIds : calls[rc[1]][rc[2]].pc # "none"})

InitKV ==
  /\ InitWith(MkConfig(TRUE, TRUE, FALSE, FALSE, 0, TRUE, WriteCountThreshold, WriteBytesThreshold),
              1, Ids \ (1..KvIds))
  /\ MergeIdle
  /\ HistInit(NoSeen)

NextKV ==
  \/ \E r \in Replicas, v \in Values :
       AllQuiescent /\ ops[r] < KvOps /\ Set(r, PlainKey("k"), v)
  \/ \E r \in Replicas : AllQuiescent /\ ops[r] < KvOps /\ Del(r, PlainKey("k"))
  \/ \E r \in Replicas : AllQuiescent /\ RoundsMade < KvRounds /\ SyncManual(r)
  \/ \E r \in Replicas : PlainSyncStep(r)

SpecKV == InitKV /\ [][NextKV]_vars

\* --- two replicas over one remote and a reliable transport, one call at a
\* time: A holds a list of two items it has not synced yet (the state after
\* rpush(L, 1, 2) at time 1) and sets items; B sets the key k; both sync
ListOps == 2
ListRounds == 4
Indexes == 0..1
ListValues == {MaxVal}

InitList ==
  /\ work = [r \in Replicas |->
                 IF r = "A"
                 THEN [EmptyTree EXCEPT
                         ![listItemKey(TheList, 1)] = buildRecord(1, NoRec, 3, 1),
                         ![listItemKey(TheList, 2)] = buildRecord(2, NoRec, 4, 1),
                         ![listMetaKey(TheList)] = buildListMetaRecord(<<1, 2>>, NoRec, 5, 1)]
                 ELSE EmptyTree]
  /\ files = [r \in Replicas |->
                IF r = "A" THEN {hashKeyToBucket(listItemKey(TheList, 1)),
                                 hashKeyToBucket(listItemKey(TheList, 2)),
                                 hashKeyToBucket(listMetaKey(TheList))}
                ELSE {}]
  /\ gitDir = [r \in Replicas |-> FALSE]
  /\ hasOrigin = [r \in Replicas |-> FALSE]
  /\ head = [r \in Replicas |-> NoCommit]
  /\ tracking = [r \in Replicas |-> NoCommit]
  /\ remote = NoCommit
  /\ clock = [r \in Replicas |-> 1]
  /\ usedIds = 1..5
  /\ status = [r \in Replicas |->
                 [state |-> "idle", inFlight |-> FALSE, lastAt |-> Null, lastError |-> "none"]]
  /\ writeCount = [r \in Replicas |-> IF r = "A" THEN 3 ELSE 0]
  /\ writeBytes = [r \in Replicas |->
                     IF r = "A"
                     THEN WriteCost(work[r], <<hashKeyToBucket(listItemKey(TheList, 1)),
                                               hashKeyToBucket(listItemKey(TheList, 2)),
                                               hashKeyToBucket(listMetaKey(TheList))>>)
                     ELSE 0]
  /\ config = [r \in Replicas |->
                 MkConfig(TRUE, FALSE, FALSE, FALSE, 0, TRUE,
                          WriteCountThreshold, WriteBytesThreshold)]
  /\ syncTimer = [r \in Replicas |-> NoTimer]
  /\ syncIntervalTimer = [r \in Replicas |-> NoTimer]
  /\ timers = [r \in Replicas |-> NoTimers]
  /\ corrupt = [r \in Replicas |-> {}]
  /\ logged = [r \in Replicas |-> {}]
  /\ calls = [r \in Replicas |-> [c \in CallIds |-> IdleCall]]
  /\ ops = [r \in Replicas |-> 0]
  /\ last = [r \in Replicas |->
               IF r = "A" THEN Ok("rpush", 2) ELSE Ok("none", Null)]
  /\ MergeIdle
  /\ HistInit(NoSeen)

NextList ==
  \/ \E i \in Indexes, v \in ListValues :
       AllQuiescent /\ ops["A"] < ListOps /\ LSet("A", TheList, i, v)
  \/ AllQuiescent /\ ops["B"] < 1 /\ Set("B", PlainKey("k"), 1)
  \/ \E r \in Replicas : AllQuiescent /\ RoundsMade < ListRounds /\ SyncManual(r)
  \/ \E r \in Replicas : SyncStep(r)

SpecList == InitList /\ [][NextList]_vars

\* --- replica A with its list, a remote and a file system that may fail in the
\* stage after the merge: lset and sync, one call at a time
NextAbort ==
  \/ \E i \in Indexes, v \in Values :
       AllQuiescent /\ ops["A"] < AbortOps /\ LSet("A", TheList, i, v)
  \/ AllQuiescent /\ RoundsMade < AbortRounds /\ SyncManual("A")
  \/ SyncStep("A")
  \/ \E c \in CallIds : StageFails("A", c)

SpecAbort == InitList /\ [][NextAbort]_vars

\* --- replica A with its list and a remote: lset, lpop, del of an item's key,
\* and sync, one call at a time
NextNorm ==
  \/ \E i \in Indexes, v \in Values :
       AllQuiescent /\ ops["A"] < NormOps /\ LSet("A", TheList, i, v)
  \/ AllQuiescent /\ ops["A"] < NormOps /\ LPop("A", TheList, 1)
  \/ \E itemId \in Ids :
       /\ AllQuiescent /\ ops["A"] < NormOps
       /\ work["A"][listItemKey(TheList, itemId)] # NoRec
       /\ Del("A", listItemKey(TheList, itemId))
  \/ AllQuiescent /\ RoundsMade < NormRounds /\ SyncManual("A")
  \/ SyncStep("A")

SpecNorm == InitList /\ [][NextNorm]_vars

\* --- two replicas constructed on clones of the remote branch, which holds a
\* list of one item; each sets the item once, then they sync, one call at a time
SharedTree ==
  [EmptyTree EXCEPT ![listItemKey(TheList, 1)] = buildRecord(1, NoRec, 3, 1),
                    ![listMetaKey(TheList)] = buildListMetaRecord(<<1>>, NoRec, 5, 1)]

SharedCommit ==
  MkCommit(SharedTree,
           {hashKeyToBucket(listItemKey(TheList, 1)), hashKeyToBucket(listMetaKey(TheList))}, 1)

InitShared ==
  /\ work = [r \in Replicas |-> SharedTree]
  /\ files = [r \in Replicas |-> SharedCommit.files]
  /\ gitDir = [r \in Replicas |-> TRUE]
  /\ hasOrigin = [r \in Replicas |-> TRUE]
  /\ head = [r \in Replicas |-> SharedCommit]
  /\ tracking = [r \in Replicas |-> SharedCommit]
  /\ remote = SharedCommit
  /\ clock = [r \in Replicas |-> 1]
  /\ usedIds = 1..5
  /\ status = [r \in Replicas |->
                 [state |-> "idle", inFlight |-> FALSE, lastAt |-> Null, lastError |-> "none"]]
  /\ writeCount = [r \in Replicas |-> 0]
  /\ writeBytes = [r \in Replicas |-> 0]
  /\ config = [r \in Replicas |->
                 MkConfig(TRUE, FALSE, FALSE, FALSE, 0, TRUE,
                          WriteCountThreshold, WriteBytesThreshold)]
  /\ syncTimer = [r \in Replicas |-> NoTimer]
  /\ syncIntervalTimer = [r \in Replicas |-> NoTimer]
  /\ timers = [r \in Replicas |-> NoTimers]
  /\ corrupt = [r \in Replicas |-> {}]
  /\ logged = [r \in Replicas |-> {}]
  /\ calls = [r \in Replicas |-> [c \in CallIds |-> IdleCall]]
  /\ ops = [r \in Replicas |-> 0]
  /\ last = [r \in Replicas |-> Ok("none", Null)]
  /\ MergeIdle
  /\ HistInit(NoSeen)

NextShared ==
  \/ \E r \in Replicas, v \in Values :
       AllQuiescent /\ RoundsMade = 0 /\ ops[r] < SharedOps /\ LSet(r, TheList, 0, v)
  \/ \E r \in Replicas : AllQuiescent /\ RoundsMade < SharedRounds /\ SyncManual(r)
  \/ \E r \in Replicas : SyncStep(r)

SpecShared == InitShared /\ [][NextShared]_vars

\* --- one instance whose caller sets the key k while sync() calls, each awaited
\* before the next, are running: set() interleaves with the steps of a round
RaceOps == 2
RaceRounds == 2

InitRace ==
  /\ InitWith(MkConfig(TRUE, FALSE, FALSE, FALSE, 0, TRUE, WriteCountThreshold, WriteBytesThreshold),
              1, Ids \ {1})
  /\ MergeIdle
  /\ HistInit(Unobserved)

NextRace ==
  \/ \E v \in Values : ops["A"] < RaceOps /\ Set("A", PlainKey("k"), v)
  \/ Quiescent("A") /\ RoundsMade < RaceRounds /\ SyncManual("A")
  \/ PlainSyncStep("A")

SpecRace == InitRace /\ [][NextRace]_vars

\* --- one instance without a remote, its caller and the bucket files: set, del
\* and get of two keys, one of them with a line terminator in its name
LocalOps == 3
LocalIds == 3
LocalKeys == UserKeys

InitLocal ==
  /\ InitWith(MkConfig(FALSE, FALSE, FALSE, FALSE, 0, TRUE, WriteCountThreshold, WriteBytesThreshold),
              1, Ids \ (1..LocalIds))
  /\ MergeIdle
  /\ HistInit(Unobserved)

NextLocal ==
  \/ \E k \in LocalKeys, v \in Values : ops["A"] < LocalOps /\ Set("A", k, v)
  \/ \E k \in LocalKeys : ops["A"] < LocalOps /\ Del("A", k)
  \/ \E k \in LocalKeys : ops["A"] < LocalOps /\ Get("A", k)
  \/ \E b \in Buckets : ops["A"] < LocalOps /\ CorruptBucket("A", b)

SpecLocal == InitLocal /\ [][NextLocal]_vars

\* One replica without a remote, with autoSync and syncOnChange on, that calls
\* the list operations on one list key, and set and del on the keys of the
\* list's own records. The UUIDs a call mints are the lowest unused ones, in
\* the order of their use.
LowestIds(n) ==
  LET sorted == SortedSeq(FreshIds)
  IN [i \in 1..(IF n < Len(sorted) THEN n ELSE Len(sorted)) |-> sorted[i]]

LowestMetaId(n) ==
  LET sorted == SortedSeq(FreshIds)
  IN IF n + 1 <= Len(sorted) THEN {sorted[n + 1]} ELSE {}

ListIndexes == (0 - (MaxIndex + 1))..MaxIndex

PushArgs == UNION {[1..n -> Values] : n \in 0..MaxPush}

InitListOps ==
  /\ InitWith(MkConfig(FALSE, FALSE, TRUE, TRUE, 0, TRUE, WriteCountThreshold, WriteBytesThreshold),
              1, {})
  /\ MergeIdle
  /\ HistInit(Unobserved)

NextListOps ==
  \/ \E values \in PushArgs, left \in BOOLEAN :
       \E metaId \in LowestMetaId(2 * Len(values)) \cup {Null} :
         /\ ops["A"] < ListCalls
         /\ PushValues("A", TheList, values, left, LowestIds(2 * Len(values)), metaId)
  \/ \E count \in 0..MaxCount : ops["A"] < ListCalls /\ LPop("A", TheList, count)
  \/ \E count \in 0..MaxCount : ops["A"] < ListCalls /\ RPop("A", TheList, count)
  \/ \E index \in ListIndexes, v \in Values :
       ops["A"] < ListCalls /\ LSet("A", TheList, index, v)
  \/ \E v \in Values : ops["A"] < ListCalls /\ Set("A", listMetaKey(TheList), v)
  \/ \E itemId \in Ids :
       /\ ops["A"] < ListCalls
       /\ work["A"][listItemKey(TheList, itemId)] # NoRec
       /\ Del("A", listItemKey(TheList, itemId))

SpecListOps == InitListOps /\ [][NextListOps]_vars

\* The same replica, whose caller also deletes the list through del of the
\* key of its meta record.
FrameCalls == 3

NextFrame ==
  \/ ops["A"] < FrameCalls /\ NextListOps
  \/ /\ ops["A"] < FrameCalls
     /\ work["A"][listMetaKey(TheList)] # NoRec
     /\ Del("A", listMetaKey(TheList))

SpecFrame == InitListOps /\ [][NextFrame]_vars

\* One replica without a remote, constructed with any of the scheduling
\* configurations, that mutates its store, is reconfigured with setConfig, and
\* whose timers expire. The sync() calls the timers make are begun and not
\* followed further.
MinuteChoices == 0..MaxMinutes

SchedFields == {"autoSync", "syncOnChange", "syncIntervalMinutes"}

InitSched ==
  /\ \E a \in BOOLEAN, s \in BOOLEAN, m \in MinuteChoices :
       InitWith(MkConfig(FALSE, FALSE, a, s, m, TRUE, WriteCountThreshold, WriteBytesThreshold),
                1, Ids \ (1..SchedIds))
  /\ MergeIdle
  /\ HistInit(Unobserved)

NextSched ==
  \/ \E v \in Values : ops["A"] < SchedOps /\ Set("A", PlainKey("k"), v)
  \/ \E v \in Values :
       \E metaId \in LowestMetaId(2) \cup {Null} :
         ops["A"] < SchedOps /\ PushValues("A", TheList, <<v>>, FALSE, LowestIds(2), metaId)
  \/ \E count \in 1..MaxCount : ops["A"] < SchedOps /\ LPop("A", TheList, count)
  \/ \E given \in SUBSET SchedFields :
       \E a \in (IF "autoSync" \in given THEN BOOLEAN ELSE {config["A"].autoSync}),
          s \in (IF "syncOnChange" \in given THEN BOOLEAN ELSE {config["A"].syncOnChange}),
          m \in (IF "syncIntervalMinutes" \in given THEN MinuteChoices
                 ELSE {config["A"].syncIntervalMinutes}) :
         /\ ops["A"] < SchedOps
         /\ SetConfig("A", given, [config["A"] EXCEPT !.autoSync = a, !.syncOnChange = s,
                                                      !.syncIntervalMinutes = m])
  \/ SyncTimerFire("A")
  \/ SyncIntervalFire("A")

SpecSched == InitSched /\ [][NextSched]_vars

\* One replica with a remote and a reliable transport, constructed with any of
\* the history configurations, that makes its set and sync() calls one after
\* the other.
CountThresholds == {1, LargeCount}

BytesThresholds == {SmallBytes, LargeBytes}

InitCompact ==
  /\ \E enabled \in BOOLEAN, countThreshold \in CountThresholds, bytesThreshold \in BytesThresholds :
       InitWith(MkConfig(TRUE, FALSE, FALSE, FALSE, 0, enabled, countThreshold, bytesThreshold),
                1, Ids \ (1..CompactIds))
  /\ MergeIdle
  /\ HistInit(Unobserved)

NextCompact ==
  \/ \E k \in UserKeys, v \in Values :
       Quiescent("A") /\ ops["A"] < CompactOps /\ Set("A", k, v)
  \/ Quiescent("A") /\ RoundsMade < CompactRounds /\ SyncManual("A")
  \/ PlainSyncStep("A")

SpecCompact == InitCompact /\ [][NextCompact]_vars

\* One replica without a remote, constructed with any of the history
\* configurations, that makes its set and sync() calls one after the other.
\* Without a remote compactHistory returns at once, so its steps are left out:
\* PipelineStep is a stage of syncWithGit.
PipelineStep(r) ==
  \E c \in CallIds :
    \/ EnsureRepo(r, c)
    \/ EnsureBranch(r, c)
    \/ Fetch(r, c)
    \/ Enumerate(r, c)
    \/ MergeRead(r, c)
    \/ MergeWrite(r, c)
    \/ Normalize(r, c)
    \/ Commit(r, c)
    \/ Push(r, c)

InitNoRemote ==
  /\ \E enabled \in BOOLEAN, countThreshold \in CountThresholds, bytesThreshold \in BytesThresholds :
       InitWith(MkConfig(FALSE, FALSE, FALSE, FALSE, 0, enabled, countThreshold, bytesThreshold),
                1, Ids \ (1..CompactIds))
  /\ MergeIdle
  /\ HistInit(Unobserved)

NextNoRemote ==
  \/ \E k \in UserKeys, v \in Values :
       Quiescent("A") /\ ops["A"] < CompactOps /\ Set("A", k, v)
  \/ Quiescent("A") /\ RoundsMade < CompactRounds /\ SyncManual("A")
  \/ PipelineStep("A")

SpecNoRemote == InitNoRemote /\ [][NextNoRemote]_vars

\* One replica without a remote that writes plain keys and a list and scans
\* its keys page by page.
InitScan ==
  /\ InitWith(MkConfig(FALSE, FALSE, FALSE, FALSE, 0, TRUE, WriteCountThreshold, WriteBytesThreshold),
              1, Ids \ (1..ScanIds))
  /\ MergeIdle
  /\ HistInit(Unobserved)

NextScan ==
  \/ \E k \in UserKeys, v \in Values : ops["A"] < ScanOps /\ Set("A", k, v)
  \/ \E k \in UserKeys : ops["A"] < ScanOps /\ Del("A", k)
  \/ \E v \in Values :
       \E metaId \in LowestMetaId(2) \cup {Null} :
         ops["A"] < ScanOps /\ PushValues("A", TheList, <<v>>, FALSE, LowestIds(2), metaId)
  \/ \E cursor \in 0..MaxCursor, pattern \in Patterns, count \in 1..MaxScanCount :
       ops["A"] < ScanOps /\ Scan("A", cursor, pattern, count)

SpecScan == InitScan /\ [][NextScan]_vars

\* Two replicas over one remote with a reliable transport and history
\* compaction switched off. Each writes the key first; their sync rounds then
\* run at the same time, so that one replica may push between the other's
\* fetch and push.
InitLost ==
  /\ InitWith(MkConfig(TRUE, FALSE, FALSE, FALSE, 0, FALSE, WriteCountThreshold, WriteBytesThreshold),
              1, Ids \ (1..KvIds))
  /\ MergeIdle
  /\ HistInit(NoSeen)

NextLost ==
  \/ \E r \in Replicas, v \in Values :
       AllQuiescent /\ RoundsMade = 0 /\ ops[r] < LostOps /\ Set(r, PlainKey("k"), v)
  \/ \E r \in Replicas : Quiescent(r) /\ RoundsMade < LostRounds /\ SyncManual(r)
  \/ \E r \in Replicas : PipelineStep(r)

SpecLost == InitLost /\ [][NextLost]_vars

\* --- one instance constructed on a clone of the remote branch, which holds a
\* list of one item written one clock tick before the instance was made; the
\* caller sets the item, pops from the tail, and syncs, one call at a time
LoserOps == 3
LoserRounds == 3

EpochTree ==
  [EmptyTree EXCEPT ![listItemKey(TheList, 1)] = buildRecord(1, NoRec, 3, 0),
                    ![listMetaKey(TheList)] = buildListMetaRecord(<<1>>, NoRec, 5, 0)]

EpochCommit ==
  MkCommit(EpochTree,
           {hashKeyToBucket(listItemKey(TheList, 1)), hashKeyToBucket(listMetaKey(TheList))}, 1)

InitLosers ==
  /\ work = [r \in Replicas |-> IF r = "A" THEN EpochTree ELSE EmptyTree]
  /\ files = [r \in Replicas |-> IF r = "A" THEN EpochCommit.files ELSE {}]
  /\ gitDir = [r \in Replicas |-> r = "A"]
  /\ hasOrigin = [r \in Replicas |-> r = "A"]
  /\ head = [r \in Replicas |-> IF r = "A" THEN EpochCommit ELSE NoCommit]
  /\ tracking = [r \in Replicas |-> IF r = "A" THEN EpochCommit ELSE NoCommit]
  /\ remote = EpochCommit
  /\ clock = [r \in Replicas |-> 1]
  /\ usedIds = 1..5
  /\ status = [r \in Replicas |->
                 [state |-> "idle", inFlight |-> FALSE, lastAt |-> Null, lastError |-> "none"]]
  /\ writeCount = [r \in Replicas |-> 0]
  /\ writeBytes = [r \in Replicas |-> 0]
  /\ config = [r \in Replicas |->
                 MkConfig(TRUE, FALSE, FALSE, FALSE, 0, TRUE,
                          WriteCountThreshold, WriteBytesThreshold)]
  /\ syncTimer = [r \in Replicas |-> NoTimer]
  /\ syncIntervalTimer = [r \in Replicas |-> NoTimer]
  /\ timers = [r \in Replicas |-> NoTimers]
  /\ corrupt = [r \in Replicas |-> {}]
  /\ logged = [r \in Replicas |-> {}]
  /\ calls = [r \in Replicas |-> [c \in CallIds |-> IdleCall]]
  /\ ops = [r \in Replicas |-> 0]
  /\ last = [r \in Replicas |-> Ok("none", Null)]
  /\ MergeIdle
  /\ HistInit(Unobserved)

NextLosers ==
  \/ \E v \in Values : Quiescent("A") /\ ops["A"] < LoserOps /\ LSet("A", TheList, 0, v)
  \/ \E count \in 1..2 : Quiescent("A") /\ ops["A"] < LoserOps /\ RPop("A", TheList, count)
  \/ Quiescent("A") /\ RoundsMade < LoserRounds /\ SyncManual("A")
  \/ SyncStep("A")

SpecLosers == InitLosers /\ [][NextLosers]_vars

\* --- two replicas over one remote and a reliable transport, without
\* compaction: each sets or deletes one of the keys, then they sync, one call
\* at a time
KeysOps == 1
KeysRounds == 3

InitKeys ==
  /\ InitWith(MkConfig(TRUE, FALSE, FALSE, FALSE, 0, FALSE, WriteCountThreshold, WriteBytesThreshold),
              1, Ids \ (1..KvIds))
  /\ MergeIdle
  /\ HistInit(Unobserved)

NextKeys ==
  \/ \E r \in Replicas, k \in UserKeys, v \in Values :
       AllQuiescent /\ ops[r] < KeysOps /\ Set(r, k, v)
  \/ \E r \in Replicas, k \in UserKeys :
       AllQuiescent /\ ops[r] < KeysOps /\ Del(r, k)
  \/ \E r \in Replicas : AllQuiescent /\ RoundsMade < KeysRounds /\ SyncManual(r)
  \/ \E r \in Replicas : PipelineStep(r)

SpecKeys == InitKeys /\ [][NextKeys]_vars

\* --- one instance with a flaky remote whose caller registered handlers with
\* events.on that may throw.  EventEmitter.emit runs the handlers inside the
\* emit call, so what a handler throws is thrown by the emit in sync().
HandlerOps == 1
HandlerRounds == 3

ErrHandler == "Error: handler failed"

\* a sync() call whose sync:start handler throws: the emit is before the try,
\* so the error leaves sync()
SyncStartRaises(r) ==
  \E c \in CallIds :
    /\ IsNextCall(r, c)
    /\ ~status[r].inFlight
    /\ status' = [status EXCEPT ![r] = [@ EXCEPT !.state = "syncing", !.inFlight = TRUE,
                                                 !.lastError = "none"]]
    /\ SetCall(r, c, [calls[r][c] EXCEPT !.pc = "raised", !.reason = "manual",
                                         !.evStart = @ + 1, !.startStatus = status'[r]])
    /\ UNCHANGED <<storeVars, gitVars, clock, usedIds, config, syncTimer, timers,
                   syncIntervalTimer, ops, last, mergeVars, logged>>
    /\ SyncObserved(r)

\* the push succeeds and the sync:finish handler throws: the emit is inside the
\* try, so the catch of sync() sets state=error, emits sync:error and returns
PushFinishRaises(r, c) ==
  /\ calls[r][c].pc = "push"
  /\ config[r].repoUrl
  /\ head[r] # NoCommit
  /\ remote' = head[r]
  /\ tracking' = [tracking EXCEPT ![r] = head[r]]
  /\ \E t \in NowChoices(r) :
       /\ clock' = [clock EXCEPT ![r] = t]
       /\ status' = [status EXCEPT ![r] = [state |-> "error", inFlight |-> FALSE,
                                           lastAt |-> t, lastError |-> ErrHandler]]
  /\ SetCall(r, c, [calls[r][c] EXCEPT !.pc = "returned", !.evFinish = @ + 1,
                                       !.evError = @ + 1,
                                       !.result = [success |-> FALSE, error |-> ErrHandler]])
  /\ UNCHANGED <<storeVars, gitDir, hasOrigin, head, usedIds, config, syncTimer, timers,
                 syncIntervalTimer, ops, last, mergeVars, logged>>
  /\ SyncObserved(r)

\* the fetch fails in the transport and the sync:error handler throws: the
\* emit is inside the catch of sync(), after status was set, and the error
\* leaves sync()
FetchErrorRaises(r, c) ==
  /\ calls[r][c].pc = "fetch"
  /\ config[r].repoUrl
  /\ config[r].flaky
  /\ status' = [status EXCEPT ![r] = [state |-> "error", inFlight |-> FALSE,
                                      lastAt |-> status[r].lastAt,
                                      lastError |-> ErrTransport]]
  /\ SetCall(r, c, [calls[r][c] EXCEPT !.pc = "raised", !.evError = @ + 1])
  /\ UNCHANGED <<storeVars, gitVars, clock, usedIds, config, syncTimer, timers,
                 syncIntervalTimer, ops, last, mergeVars, logged>>
  /\ SyncObserved(r)

AllEnded(r) == \A c \in CallIds : calls[r][c].pc \in {"none", "returned", "raised"}

InitHandler ==
  /\ InitWith(MkConfig(TRUE, TRUE, FALSE, FALSE, 0, TRUE, WriteCountThreshold, WriteBytesThreshold),
              1, Ids \ {1})
  /\ MergeIdle
  /\ HistInit(Unobserved)

NextHandler ==
  \/ \E v \in Values : AllEnded("A") /\ ops["A"] < HandlerOps /\ Set("A", PlainKey("k"), v)
  \/ AllEnded("A") /\ RoundsMade < HandlerRounds /\ SyncManual("A")
  \/ AllEnded("A") /\ RoundsMade < HandlerRounds /\ SyncStartRaises("A")
  \/ PlainSyncStep("A")
  \/ \E c \in CallIds : PushFinishRaises("A", c)
  \/ \E c \in CallIds : FetchErrorRaises("A", c)

SpecHandler == InitHandler /\ [][NextHandler]_vars

\* ===================================================================== claims
\* the stages of a sync round, from ensure-repo through push
PipelinePcs == {"ensureRepo", "ensureBranch", "fetch", "enumerate", "mergeRead",
                "mergeWrite", "applyLosers", "normalize", "commit", "push"}

CompactPcs == {"compactInit", "compactPush"}

InPipeline(r, c) == calls[r][c].pc \in PipelinePcs

Ended(r, c) == calls[r][c].pc \in {"returned", "raised"}

Rejected(r, c) ==
  /\ calls[r][c].pc = "returned"
  /\ calls[r][c].result = [success |-> FALSE, error |-> ErrInFlight]

\* C1: on one instance at most one sync round (ensure-repo through push) is
\* executing at any time, whatever the interleaving of manual calls and timers.
C1_SingleFlight ==
  \A r \in Replicas : \A c, d \in CallIds :
    InPipeline(r, c) /\ InPipeline(r, d) => c = d

\* C2: a sync() call made while status.inFlight is true returns the in-flight
\* error at once and changes nothing: status, bucket files, write counters and
\* the repository are unchanged, no event is emitted, no other invocation is
\* touched and no timer is armed for a follow-up.
C2_RejectedChangesNothing ==
  [][\A r \in Replicas : \A c \in CallIds :
       (status[r].inFlight /\ calls[r][c].pc = "none" /\ calls'[r][c].pc # "none")
       => /\ calls'[r][c].pc = "returned"
          /\ calls'[r][c].result = [success |-> FALSE, error |-> ErrInFlight]
          /\ calls'[r][c].evStart = 0
          /\ calls'[r][c].evFinish = 0
          /\ calls'[r][c].evError = 0
          /\ \A d \in CallIds : d # c => calls'[r][d] = calls[r][d]
          /\ status' = status
          /\ work' = work /\ files' = files
          /\ writeCount' = writeCount /\ writeBytes' = writeBytes
          /\ head' = head /\ remote' = remote /\ tracking' = tracking
          /\ timers'[r].live \subseteq timers[r].live
          /\ syncTimer' = syncTimer
          /\ syncIntervalTimer' = syncIntervalTimer]_vars

\* C2 witness: an invocation was rejected while another one is in its pipeline
C2_Witness ==
  \E c, d \in CallIds : Rejected("A", c) /\ InPipeline("A", d)

\* C3: every sync() call that passed the gate has emitted sync:start exactly
\* once (payload state=syncing, inFlight=true) and, once it has ended, exactly
\* one terminal event: sync:finish iff it returned success, sync:error iff it
\* returned failure; never both, also when the compaction after the sync fails.
C3_OneTerminalEvent ==
  \A r \in Replicas : \A c \in CallIds :
    LET call == calls[r][c]
    IN /\ (call.pc # "none" /\ ~Rejected(r, c))
            => /\ call.evStart = 1
               /\ call.startStatus.state = "syncing"
               /\ call.startStatus.inFlight
       /\ ~(call.evFinish >= 1 /\ call.evError >= 1)
       /\ (call.pc = "returned" /\ ~Rejected(r, c))
            => /\ call.evFinish + call.evError = 1
               /\ (call.evFinish = 1 <=> call.result.success)
               /\ (call.evError = 1 <=> ~call.result.success)

Eff(rec) == IF rec.updatedAt = NonFinite THEN 0 ELSE rec.updatedAt

\* the record last-write-wins names for two present records: the strictly larger
\* updatedAt, and on a tie the id that is greater or equal
LwwOk(winner, a, b) ==
  /\ winner \in {a, b}
  /\ Eff(a) > Eff(b) => winner = a
  /\ Eff(b) > Eff(a) => winner = b
  /\ Eff(a) = Eff(b) => \/ winner = a /\ a.id >= b.id
                        \/ winner = b /\ b.id >= a.id

\* C6: mergeRecord returns the present record if the other is absent; otherwise
\* the one with the strictly larger updatedAt (non-finite counts as 0), tombstone
\* or live; on equal updatedAt the one whose id is greater or equal.
C6_ScalarMergeRule ==
  mOut.op = "mergeRecord" =>
    /\ (mLocal = NoRec /\ mRemote = NoRec) => mOut.winner = NoRec
    /\ (mLocal = NoRec /\ mRemote # NoRec) => mOut.winner = mRemote
    /\ (mLocal # NoRec /\ mRemote = NoRec) => mOut.winner = mLocal
    /\ (mLocal # NoRec /\ mRemote # NoRec) => LwwOk(mOut.winner, mLocal, mRemote)

\* C6 witness: a newer tombstone has beaten an older live record
C6_Witness ==
  /\ mOut.op = "mergeRecord"
  /\ mLocal # NoRec /\ mRemote # NoRec
  /\ mLocal.deletedAt = Null /\ mRemote.deletedAt # Null
  /\ mLocal.updatedAt # NonFinite /\ mRemote.updatedAt > mLocal.updatedAt
  /\ mOut.winner = mRemote

ScalarRule(a, b) ==
  IF a = NoRec THEN b
  ELSE IF b = NoRec THEN a
  ELSE IF Eff(a) > Eff(b) THEN a
  ELSE IF Eff(b) > Eff(a) THEN b
  ELSE IF a.id >= b.id THEN a ELSE b

\* the log is the given sequence of <<replica, event>> pairs
LogIs(events) ==
  /\ Len(log) = Len(events)
  /\ \A i \in DOMAIN events : log[i].r = events[i][1] /\ log[i].ev = events[i][2]

\* C5: after a successful sync round that fetched a remote branch last pushed
\* by another replica, the local record of every key is the merge of the local
\* record before the round and the record of origin/<branch> as fetched.
C5_MergesRemoteAtFetch ==
  \A r \in Replicas :
    (seen[r].phase = "ok" /\ seen[r].fetched # NoCommit /\ seen[r].from \notin {r, "none"})
      => \A k \in UserKeys :
           work[r][k] = ScalarRule(seen[r].before[k], seen[r].fetched.tree[k])

\* C7: A and B have set k at different timestamps and written nothing since;
\* A has synced, then B, then A again, all successfully: get(k) on both is the
\* value with the larger updatedAt.
C7_ScalarConvergence ==
  LET a == seen["A"].wrote
      b == seen["B"].wrote
  IN (/\ IsLive(a) /\ IsLive(b) /\ a.updatedAt # b.updatedAt
      /\ LogIs(<< <<"A", "start">>, <<"A", "ok">>, <<"B", "start">>, <<"B", "ok">>,
                  <<"A", "start">>, <<"A", "ok">> >>))
       => LET newer == IF a.updatedAt > b.updatedAt THEN a ELSE b
          IN /\ get("A", PlainKey("k")) = newer.value
             /\ get("B", PlainKey("k")) = newer.value

\* the rounds of the log: it is made of whole sync() calls, one after the other
Rounds == Len(log) \div 2

WholeRounds ==
  /\ Len(log) = 2 * Rounds
  /\ \A j \in 1..Rounds : /\ log[2 * j - 1].ev = "start"
                          /\ log[2 * j].ev = "ok"
                          /\ log[2 * j].r = log[2 * j - 1].r

\* since the last write the replicas have taken turns at successful sync
\* rounds, each has had two, and the last round of each changed nothing
Settled ==
  /\ WholeRounds
  /\ Rounds >= 4
  /\ \A j \in 1..(Rounds - 1) : log[2 * j].r # log[2 * j + 2].r
  /\ ~log[2 * Rounds].changed
  /\ ~log[2 * Rounds - 2].changed

\* C8: once both replicas have stopped writing and have alternated successful
\* sync rounds until a round changes nothing, litems(L) is the same sequence on
\* A and on B.
C8_ListConvergence == Settled => litems("A", TheList) = litems("B", TheList)

\* the order of the live list meta record
orderOf(r) ==
  LET meta == work[r][listMetaKey(TheList)]
  IN IF IsLive(meta) /\ meta.type = "list" THEN meta.order ELSE <<>>

\* the defeated version of a conflict, as it must be kept
KeptLoser(cf) ==
  LET winner == ScalarRule(cf.local, cf.remote)
      loser == IF winner = cf.local THEN cf.remote ELSE cf.local
  IN [loser EXCEPT !.conflictLoser = cf.itemId,
                   !.marked = @ \/ loser.type = "object"]

\* what a sync that met the conflict cf must leave on replica r
Preserved(r, cf) ==
  /\ work[r][listItemKey(TheList, cf.itemId)] = ScalarRule(cf.local, cf.remote)
  /\ \E j \in Ids \ seen[r].minted :
       /\ work[r][listItemKey(TheList, j)] = KeptLoser(cf)
       /\ IsLive(work[r][listItemKey(TheList, j)])
       /\ IF cf.itemId \in Range(orderOf(r))
          THEN /\ IndexOf(orderOf(r), cf.itemId) < Len(orderOf(r))
               /\ orderOf(r)[IndexOf(orderOf(r), cf.itemId) + 1] = j
          ELSE j \in Range(orderOf(r))

shownCount(w) ==
  Cardinality({i \in Range(getListMeta(w, TheList).order) : IsLive(w[listItemKey(TheList, i)])})

\* the items a sync of replica r has minted and left live as the loser of an item
LosersMinted(r) ==
  {j \in Ids \ seen[r].minted :
     /\ IsLive(work[r][listItemKey(TheList, j)])
     /\ work[r][listItemKey(TheList, j)].conflictLoser # Null}

\* C11: when the two versions of a list item a sync merges hold the identical
\* value (the item was set to the value it already had), the sync creates no
\* conflict-loser item and litems has as many items as before the sync.
C11_SameValueNoLoser ==
  \A r \in Replicas :
    (/\ seen[r].phase = "ok"
     /\ seen[r].conflicts # {}
     /\ \A cf \in seen[r].conflicts : cf.local.value = cf.remote.value)
      => /\ LosersMinted(r) = {}
         /\ Len(litems(r, TheList)) = shownCount(seen[r].before)

\* the step writes back the bucket the call c of replica r has merged
IsMergeWrite(r, c) == calls[r][c].pc = "mergeWrite" /\ calls'[r][c].pc # "mergeWrite"

\* C12: once set(k, v) has completed, get(k) returns v until a later local
\* write to k or a merge in which a remote record for k wins, also while a sync
\* round is running: no step that is not a local write takes v away, except
\* the write-back of a merge whose remote record beats the record of the set.
C12_SetSurvivesMerge ==
  [][\A r \in Replicas : \A k \in UserKeys :
       (/\ last[r].op = "set" /\ last'[r] = last[r] /\ ops'[r] = ops[r]
        /\ get(r, k) = last[r].arg
        /\ work'[r][k] # work[r][k])
       => \E c \in CallIds :
            /\ IsMergeWrite(r, c)
            /\ work'[r][k] = calls[r][c].rem[k]
            /\ mergeRecord(work[r][k], calls[r][c].rem[k]) = calls[r][c].rem[k]]_vars

\* C13: a key whose record has deletedAt set is absent to the readers: get
\* returns null, has false, type null, keys/scan/list omit it, and meta still
\* returns the record; and keys("*") is exactly the set of the keys whose
\* record has deletedAt = null.
C13_TombstoneVisibility ==
  \A r \in Replicas :
    /\ \A k \in AllKeys :
         (work[r][k] # NoRec /\ work[r][k].deletedAt # Null)
           => /\ get(r, k) = Null
              /\ ~has(r, k)
              /\ type(r, k) = NullType
              /\ k \notin keys(r) /\ k \notin scan(r) /\ k \notin list(r)
              /\ metaRecord(r, k) = work[r][k]
    /\ keys(r) = {k \in AllKeys : work[r][k] # NoRec /\ work[r][k].deletedAt = Null}

MsgReadBucketFailed == "readBucket failed"

\* C17: when a bucket file cannot be parsed, a get of a key of that bucket
\* returns null without raising, and the logger has been called with the
\* message 'readBucket failed'.
C17_CorruptBucketLogged ==
  \A r \in Replicas :
    (last[r].op = "get" /\ hashKeyToBucket(last[r].arg) \in corrupt[r])
      => /\ last[r].ok
         /\ last[r].value = Null
         /\ MsgReadBucketFailed \in logged[r]

\* the list as its reader sees it: what lrange(k, 0, -1) returns
ListSeq(r) == lrange(r, TheList, 0, -1).many

\* the list's records are those the list operations leave: a meta record of
\* type list, or none, and a live item record for every id of the order
ListIntact(r) ==
  LET meta == getListMeta(work[r], TheList)
  IN /\ ~meta.wrongtype
     /\ \A i \in DOMAIN meta.order : IsLive(work[r][listItemKey(TheList, meta.order[i])])

RefPrepend(S, values) ==
  [i \in 1..(Len(values) + Len(S)) |->
     IF i <= Len(values) THEN values[Len(values) + 1 - i] ELSE S[i - Len(values)]]

RefTaken(S, count) == IF count < Len(S) THEN count ELSE Len(S)

\* what a pop of count returns when it took the values taken off the list
RefPopped(op, count, taken) ==
  WithArg(IF count <= 1 THEN Ok(op, IF taken = <<>> THEN Null ELSE taken[1])
          ELSE OkMany(op, taken),
          count)

RefListStep(r, S, T, call) ==
  CASE call.op = "lpush" ->
         /\ T = RefPrepend(S, call.arg)
         /\ call = WithArg(Ok("lpush", Len(T)), call.arg)
    [] call.op = "rpush" ->
         /\ T = S \o call.arg
         /\ call = WithArg(Ok("rpush", Len(T)), call.arg)
    [] call.op = "lpop" ->
         LET n == RefTaken(S, call.arg)
         IN /\ T = SubSeq(S, n + 1, Len(S))
            /\ call = RefPopped("lpop", call.arg, SubSeq(S, 1, n))
    [] call.op = "rpop" ->
         LET n == RefTaken(S, call.arg)
         IN /\ T = SubSeq(S, 1, Len(S) - n)
            /\ call = RefPopped("rpop", call.arg, [i \in 1..n |-> S[Len(S) + 1 - i]])
    [] call.op = "lset" ->
         LET index == call.arg[1]
             at == IF index < 0 THEN Len(S) + index + 1 ELSE index + 1
         IN IF at \in 1..Len(S)
            THEN T = [S EXCEPT ![at] = call.arg[2]] /\ call.ok
            ELSE T = S /\ ~call.ok

ListCallNames == {"lpush", "rpush", "lpop", "rpop", "lset"}

\* C14: a local lpush, rpush, lpop, rpop or lset call on a list changes it as
\* the same call changes a reference sequence and returns what the reference
\* returns (an empty pop gives null for count <= 1 and [] for count > 1);
\* afterwards llen is the length of the sequence, lrange(k, 0, -1) the whole
\* sequence and lindex(k, -1) its last element.
C14_ListIsSequence ==
  [][\A r \in Replicas :
       (ListIntact(r) /\ ops'[r] = ops[r] + 1 /\ last'[r].op \in ListCallNames)
         => /\ RefListStep(r, ListSeq(r), ListSeq(r)', last'[r])
            /\ ListIntact(r)'
            /\ llen(r, TheList)' = Ok("llen", Len(ListSeq(r)'))
            /\ lindex(r, TheList, -1)' =
                 Ok("lindex", IF ListSeq(r)' = <<>> THEN Null
                              ELSE ListSeq(r)'[Len(ListSeq(r)')])]_vars

\* two values were taken off the tail of a list that keeps a third
C14_Witness ==
  /\ last["A"].op = "rpop"
  /\ Len(last["A"].many) = 2
  /\ ListSeq("A") # <<>>
  /\ ListIntact("A")

\* the record at the list's key, when it is live and of type list
ListRecord(r) ==
  LET record == work[r][listMetaKey(TheList)]
  IN IF IsLive(record) /\ record.type = "list" THEN record ELSE NoRec

\* lset(k, index, v) has no live target: the index is outside the order, or
\* the item record of the id at the index is missing or tombstoned
NoTarget(r, index) ==
  LET order == IF ListRecord(r) = NoRec THEN <<>> ELSE ListRecord(r).order
      len == Len(order)
  IN \/ index >= len
     \/ index < 0 - len
     \/ ~IsLive(work[r][listItemKey(TheList, order[IF index < 0 THEN len + index + 1
                                                     ELSE index + 1])])

WrongType(r) ==
  LET record == work[r][listMetaKey(TheList)]
  IN IsLive(record) /\ record.type # "list"

\* C15: lset(k, i, v) with i >= len or i < -len, or whose target item record
\* is missing or tombstoned, fails with 'index out of range' and changes
\* nothing: no record and no file is written, the write counters keep their
\* values and no debounce timer is armed or re-armed.
C15_LSetOutOfRange ==
  [][\A r \in Replicas :
       (/\ ops'[r] = ops[r] + 1
        /\ last'[r].op = "lset"
        /\ ~WrongType(r)
        /\ NoTarget(r, last'[r].arg[1]))
         => /\ last'[r] = WithArg(Threw("lset", MsgIndexOutOfRange), last'[r].arg)
            /\ work'[r] = work[r]
            /\ files'[r] = files[r]
            /\ writeCount'[r] = writeCount[r]
            /\ writeBytes'[r] = writeBytes[r]
            /\ timers'[r] = timers[r]
            /\ syncTimer'[r] = syncTimer[r]]_vars

\* lset failed on an index inside the order whose item record is tombstoned
C15_Witness ==
  /\ last["A"] = WithArg(Threw("lset", MsgIndexOutOfRange), last["A"].arg)
  /\ ListRecord("A") # NoRec
  /\ last["A"].arg[1] \in 0..(Len(ListRecord("A").order) - 1)
  /\ NoTarget("A", last["A"].arg[1])

ListReads(r) ==
  <<llen(r, TheList), lrange(r, TheList, 0, -1), lindex(r, TheList, 0), lindex(r, TheList, -1),
    litemsCall(r, TheList), lmeta(r, TheList)>>

\* C16: while the live record at the list's key has a type other than list,
\* llen, lrange, lindex, litems and lmeta fail with the WRONGTYPE message, and
\* so does every lpush, rpush, lpop, rpop and lset call, which writes no
\* record and no file and leaves the write counters alone.
C16_WrongType ==
  [][\A r \in Replicas :
       /\ WrongType(r) => \A i \in DOMAIN ListReads(r) : ~ListReads(r)[i].ok
                                                         /\ ListReads(r)[i].error = MsgWrongType
       /\ WrongType(r)' => \A i \in DOMAIN ListReads(r)' : ~ListReads(r)'[i].ok
                                                           /\ ListReads(r)'[i].error = MsgWrongType
       /\ (WrongType(r) /\ ops'[r] = ops[r] + 1 /\ last'[r].op \in ListCallNames)
            => /\ last'[r] = WithArg(Threw(last'[r].op, MsgWrongType), last'[r].arg)
               /\ work'[r] = work[r]
               /\ files'[r] = files[r]
               /\ writeCount'[r] = writeCount[r]
               /\ writeBytes'[r] = writeBytes[r]]_vars

\* a push of values failed on a key that holds a scalar where a list had been
C16_Witness ==
  /\ WrongType("A")
  /\ last["A"].op = "rpush"
  /\ last["A"].arg # <<>>
  /\ last["A"].error = MsgWrongType
  /\ \E itemId \in Ids : work["A"][listItemKey(TheList, itemId)] # NoRec

\* the debounce timers and the interval timers that are pending
DebounceTimers(r) == {tm \in timers[r].live : tm.kind = "timeout"}

IntervalTimers(r) == {tm \in timers[r].live : tm.kind = "interval"}

MutationNames == {"set", "del", "lpush", "rpush", "lpop", "rpop", "lset"}

\* the step is a mutation of r's store
Mutates(r) ==
  /\ ops'[r] = ops[r] + 1
  /\ last'[r].op \in MutationNames
  /\ writeCount'[r] > writeCount[r]

\* the step is the sync() call of a debounce timer that expired
DebounceFires(r, c) ==
  /\ calls[r][c].pc = "none"
  /\ calls'[r][c].pc # "none"
  /\ calls'[r][c].reason \in MutationNames

\* C18: at most one debounce timer is pending at any time; with autoSync and
\* syncOnChange on, a mutation replaces the pending timer by one for its own
\* reason, so that a burst leaves the timer of its last mutation alone; and
\* the expiry of that timer makes one sync() call and leaves no timer pending.
C18_Debounce ==
  [][\A r \in Replicas :
       /\ Cardinality(DebounceTimers(r)) <= 1
       /\ Cardinality(DebounceTimers(r)') <= 1
       /\ (Mutates(r) /\ config[r].autoSync /\ config[r].syncOnChange)
            => /\ DebounceTimers(r)' = {syncTimer'[r]}
               /\ syncTimer'[r].reason = last'[r].op
               /\ DebounceTimers(r) \cap DebounceTimers(r)' = {}
       /\ \A c \in CallIds :
            DebounceFires(r, c)
              => /\ \E tm \in DebounceTimers(r) :
                      DebounceTimers(r) = {tm} /\ tm.reason = calls'[r][c].reason
                 /\ DebounceTimers(r)' = {}
                 /\ \A d \in CallIds \ {c} : calls'[r][d] = calls[r][d]]_vars

\* a push and a pop made one burst, and its one sync() call has been made
C18_Witness ==
  /\ last["A"].op = "lpop"
  /\ last["A"].value # Null
  /\ DebounceTimers("A") = {}
  /\ \E c \in CallIds :
       /\ calls["A"][c].reason = "lpop"
       /\ \A d \in CallIds \ {c} : calls["A"][d].pc = "none"

\* C19: an interval timer is pending exactly if autoSync is on and
\* syncIntervalMinutes is positive; it is the only one, it is the one the
\* field syncIntervalTimer holds, and it was made for the current
\* syncIntervalMinutes.
C19_IntervalTimer ==
  \A r \in Replicas :
    IF config[r].autoSync /\ config[r].syncIntervalMinutes > 0
    THEN /\ IntervalTimers(r) = {syncIntervalTimer[r]}
         /\ syncIntervalTimer[r].minutes = config[r].syncIntervalMinutes
    ELSE /\ IntervalTimers(r) = {}
         /\ syncIntervalTimer[r] = NoTimer

\* setConfig has replaced an interval timer by one for another period
C19_Witness ==
  /\ last["A"].op = "setConfig"
  /\ timers["A"].made >= 2
  /\ IntervalTimers("A") # {}
  /\ \A tm \in IntervalTimers("A") : tm.minutes = MaxMinutes

\* the condition under which history is to be compacted
CompactionDue(r) ==
  /\ config[r].historyEnabled
  /\ \/ writeCount[r] >= config[r].writeCountThreshold
     \/ writeBytes[r] >= config[r].writeBytesThreshold

\* the step in which call c of r finishes its synchronisation successfully
SyncSucceeds(r, c) == calls'[r][c].evFinish = calls[r][c].evFinish + 1

\* the step in which the compaction of call c of r completes
CompactionCompletes(r, c) ==
  /\ calls[r][c].pc = "compactPush"
  /\ calls'[r][c].pc = "returned"
  /\ calls'[r][c].result.success

\* C20: when a sync with a remote configured succeeds, compaction starts
\* exactly if history.enabled is true and writeCount or writeBytes has reached
\* its threshold; when the compaction completes, the remote branch holds one
\* commit whose tree is the local working tree, and both counters are 0.
C20_Compaction ==
  [][\A r \in Replicas : \A c \in CallIds :
       /\ (SyncSucceeds(r, c) /\ config[r].repoUrl)
            => (calls'[r][c].pc = "compactInit" <=> CompactionDue(r))
       /\ CompactionCompletes(r, c)
            => /\ remote' # NoCommit
               /\ remote'.n = 1
               /\ remote'.tree = work'[r]
               /\ remote'.files = files'[r]
               /\ writeCount'[r] = 0
               /\ writeBytes'[r] = 0]_vars

\* two syncs have succeeded, compaction was due to writeBytes alone, and the
\* remote holds the one commit of the compaction with the replica's records
C20_Witness ==
  /\ config["A"].historyEnabled
  /\ config["A"].writeCountThreshold = LargeCount
  /\ config["A"].writeBytesThreshold = SmallBytes
  /\ \A c \in 1..2 : calls["A"][c].pc = "returned" /\ calls["A"][c].result.success
  /\ remote # NoCommit
  /\ remote.n = 1
  /\ remote.tree = work["A"]
  /\ \E k \in UserKeys : IsLive(work["A"][k])
  /\ writeCount["A"] = 0

\* C21: when a sync without a remote succeeds while compaction is due, nothing
\* of a compaction happens: the .git directory and the branch's commits are
\* left alone, and writeCount and writeBytes keep their values.
C21_NoRemoteNoCompaction ==
  [][\A r \in Replicas : \A c \in CallIds :
       (SyncSucceeds(r, c) /\ ~config[r].repoUrl /\ CompactionDue(r))
         => /\ gitDir'[r] = gitDir[r]
            /\ head'[r] = head[r]
            /\ calls'[r][c].pc = "returned"
            /\ writeCount'[r] = writeCount[r]
            /\ writeBytes'[r] = writeBytes[r]]_vars

\* what the glob patterns "*", "k" and "list:*" match
GlobMatches(pattern, key) ==
  CASE pattern = "*" -> TRUE
    [] pattern = "k" -> key = PlainKey("k")
    [] pattern = "list:*" -> key.kind \in {"meta", "item"}

\* the calls of one scan round: from cursor until the cursor returned is 0, or
\* until calls calls have been made
RECURSIVE ScanRound(_, _, _, _, _)
ScanRound(r, cursor, pattern, count, callsLeft) ==
  IF callsLeft = 0 THEN [done |-> FALSE, keys |-> <<>>]
  ELSE LET page == scanFrom(r, cursor, pattern, count)
           rest == ScanRound(r, page.cursor, pattern, count, callsLeft - 1)
       IN IF page.cursor = 0 THEN [done |-> TRUE, keys |-> page.keys]
          ELSE [done |-> rest.done, keys |-> page.keys \o rest.keys]

\* C22: with count >= 1 and the store left alone, the scan calls that start
\* at cursor 0 and follow the cursor returned come back to cursor 0 within as
\* many calls as there are keys (and one more), and their batches together
\* hold every live key that matches the pattern, each once.
C22_ScanPagination ==
  \A r \in Replicas : \A pattern \in Patterns : \A count \in 1..MaxScanCount :
    LET round == ScanRound(r, 0, pattern, count, Cardinality(AllKeys) + 1)
    IN /\ round.done
       /\ \A i, j \in DOMAIN round.keys : i # j => round.keys[i] # round.keys[j]
       /\ Range(round.keys) = {k \in AllKeys : IsLive(work[r][k]) /\ GlobMatches(pattern, k)}

\* record a is b or beats it under the LWW rule
HoldsOrBeats(a, b) == b = NoRec \/ (a # NoRec /\ ScalarRule(a, b) = a)

\* C23: when a sync round of a replica succeeds, the remote branch holds for
\* the key the record the replica wrote and pushed, or one that beats it under
\* LWW; this holds in particular when another replica, having fetched before
\* that push, has force-pushed over it since.
C23_LostUpdateReenters ==
  [][\A r \in Replicas :
       (ReturnedOk(r) /\ seen[r].wrote # NoRec)
         => /\ remote' # NoCommit
            /\ HoldsOrBeats(remote'.tree[PlainKey("k")], seen[r].wrote)]_vars

\* A pushed its record between B's fetch and B's force-push, which replaced it
\* on the remote by B's; A's next round has succeeded since
C23_Witness ==
  /\ LogIs(<< <<"B", "start">>, <<"B", "ok">>, <<"B", "start">>, <<"A", "start">>,
              <<"A", "ok">>, <<"B", "ok">>, <<"A", "start">>, <<"A", "ok">> >>)
  /\ seen["B"].from = "B"
  /\ seen["A"].wrote # NoRec
  /\ seen["B"].wrote # NoRec
  /\ ~HoldsOrBeats(seen["B"].wrote, seen["A"].wrote)
  /\ remote # NoCommit
  /\ remote.tree[PlainKey("k")] = seen["A"].wrote

\* C24: the scalar merger is idempotent: merging the result of
\* mergeRecord(l, r) with r again gives that result.
C24_MergeIdempotent ==
  mOut.op = "mergeRecordAgain" => mOut.winner = mOut.first

\* the remote record won a tie on updatedAt by its id and was merged with
\* itself in the second call
C24_Witness ==
  /\ mOut.op = "mergeRecordAgain"
  /\ mLocal # NoRec /\ mRemote # NoRec /\ mLocal # mRemote
  /\ mLocal.updatedAt = mRemote.updatedAt
  /\ mOut.first = mRemote
  /\ mOut.winner = mRemote

\* the step is the git.fetch of call c of replica r, with a remote configured
Fetching(r, c) == calls[r][c].pc = "fetch" /\ calls'[r][c].pc # "fetch" /\ config[r].repoUrl

\* the error git.fetch raised in the step, "none" if it raised none
FetchFailure(r, c) ==
  IF calls'[r][c].pc = "returned" THEN calls'[r][c].result.error ELSE calls'[r][c].fetchError

\* C25: with a remote configured, a fetch that fails with a NotFoundError does
\* not fail the round: the pipeline goes on to the merge, and the push of that
\* round force-pushes the local state; any other fetch failure ends the round
\* with success=false and state=error.
C25_FetchNotFound ==
  [][\A r \in Replicas : \A c \in CallIds :
       /\ (Fetching(r, c) /\ IncludesNotFound(FetchFailure(r, c)))
            => /\ calls'[r][c].pc = "enumerate"
               /\ calls'[r][c].evError = calls[r][c].evError
               /\ status'[r] = status[r]
               /\ status[r].state = "syncing"
       /\ (Fetching(r, c) /\ FetchFailure(r, c) # "none" /\ ~IncludesNotFound(FetchFailure(r, c)))
            => /\ calls'[r][c].pc = "returned"
               /\ ~calls'[r][c].result.success
               /\ status'[r].state = "error"
       /\ (calls[r][c].fetchError # "none" /\ calls[r][c].pc = "push"
             /\ calls'[r][c].evFinish > calls[r][c].evFinish)
            => remote' = MkCommit(work[r], files[r], remote'.n)]_vars

\* a round whose fetch found no remote branch has pushed the local state
C25_Witness ==
  \E r \in Replicas : \E c \in CallIds :
    /\ calls[r][c].fetchError = ErrNotFoundBranch
    /\ calls[r][c].pc = "returned"
    /\ calls[r][c].result.success
    /\ remote # NoCommit
    /\ remote.tree = work[r]
    /\ \E k \in AllKeys : IsLive(work[r][k])

\* the stages of syncWithGit that the fallback leaves out
SkippedStages == {"fetch", "enumerate", "mergeRead", "mergeWrite", "applyLosers", "normalize"}

\* git.checkout finds neither the branch nor origin/<branch>: its error holds
\* both 'NotFoundError' and 'origin/'
CheckoutFails(r, c) ==
  /\ calls[r][c].pc = "ensureBranch" /\ calls'[r][c].pc # "ensureBranch"
  /\ head[r] = NoCommit
  /\ ~(hasOrigin[r] /\ tracking[r] # NoCommit)

\* the git.push of the pipeline (not of the fallback) raises an error
PushFails(r, c) ==
  /\ calls[r][c].pc = "push" /\ calls'[r][c].pc # "push"
  /\ ~calls[r][c].fallback
  /\ calls'[r][c].evFinish = calls[r][c].evFinish

C27_RemoteNeverDiscarded ==
  [][\A r \in Replicas :
       (Pushed(r) /\ remote # NoCommit)
         => \A k \in UserKeys : HoldsOrBeats(remote'.tree[k], remote.tree[k])]_vars

\* the step ends call c of replica r with an error raised after mergeBuckets
\* and before the losers are applied and the orders normalized
AbortsAfterMerge(r, c) ==
  /\ calls[r][c].pc \in {"applyLosers", "normalize"}
  /\ calls[r][c].pending = calls'[r][c].pending
  /\ calls'[r][c].pc = "returned"
  /\ ~calls'[r][c].result.success

\* every list item live in the tree w0 is live in w1 with the same value
ItemsKept(w0, w1) ==
  \A k \in ItemKeys : IsLive(w0[k]) => (IsLive(w1[k]) /\ w1[k].value = w0[k].value)

\* C28: when a sync round aborts after the bucket merge has written its
\* results and before the pending losers are applied or the list orders
\* normalized, every list item value that was live locally before the round is
\* still live in the working tree, and the next successful sync keeps it.
C28_PartialProgress ==
  [][\A r \in Replicas : \A c \in CallIds :
       /\ AbortsAfterMerge(r, c) => ItemsKept(seen[r].before, work'[r])
       /\ (ReturnedOk(r) /\ calls[r][c].pc \notin {"none", "returned"})
            => ItemsKept(seen[r].before, work'[r])]_vars

\* a round with a pending loser was aborted before the loser was applied, and
\* the next round has succeeded
C28_Witness ==
  \E c \in CallIds :
    /\ c + 1 \in CallIds
    /\ calls["A"][c].pc = "returned"
    /\ ~calls["A"][c].result.success
    /\ calls["A"][c].result.error = ErrIo
    /\ calls["A"][c].pending # <<>>
    /\ calls["A"][c + 1].pc = "returned"
    /\ calls["A"][c + 1].result.success
    /\ \E k \in ItemKeys : IsLive(work["A"][k]) /\ work["A"][k] = seen["A"].before[k]

\* call c of replica r is in compactHistory
InCompaction(r, c) == calls[r][c].pc \in CompactPcs

\* C29: while an instance's history compaction is in progress no sync pipeline
\* runs on it: a sync() call that arrives then is rejected by the in-flight
\* gate, and the end of a compaction does not clear the in-flight flag of
\* another sync that is running.
C29_NoSyncDuringCompaction ==
  [][\A r \in Replicas : \A c \in CallIds :
       InCompaction(r, c)
         => \A d \in CallIds \ {c} :
              /\ ~InPipeline(r, d)
              /\ (calls[r][d].pc = "none" /\ calls'[r][d].pc # "none")
                   => /\ calls'[r][d].pc = "returned"
                      /\ calls'[r][d].result = [success |-> FALSE, error |-> ErrInFlight]
              /\ (calls'[r][c].pc = "returned" /\ calls'[r][d].pc \in PipelinePcs)
                   => status'[r].inFlight]_vars

\* the live conflict-loser copies of item 1 on replica r that hold the version rec
LoserCopies(r, rec) ==
  {j \in Ids \ {1} :
     LET copy == work[r][listItemKey(TheList, j)]
     IN /\ IsLive(copy)
        /\ j \in Range(orderOf(r))
        /\ copy.conflictLoser = 1
        /\ copy.value = rec.value
        /\ copy.updatedAt = rec.updatedAt}

\* C30: A and B have each set the one item of the shared list, to different
\* values at different timestamps, and have then synced to quiescence: on both the item holds the
\* LWW winner and the list holds exactly one conflict-loser copy of the
\* defeated version.
C30_OneLoserCopy ==
  LET a == seen["A"].wrote
      b == seen["B"].wrote
  IN (Settled /\ IsLive(a) /\ IsLive(b) /\ a.updatedAt # b.updatedAt /\ a.value # b.value)
       => LET winner == ScalarRule(a, b)
              loser == IF winner = a THEN b ELSE a
          IN \A r \in Replicas :
               /\ work[r][listItemKey(TheList, 1)] = winner
               /\ Cardinality(LoserCopies(r, loser)) = 1

\* the item ids of the list that have a live record on replica r
LiveItemIds(r) == {i \in Ids : IsLive(work[r][listItemKey(TheList, i)])}

\* the order of the list names exactly its live items, each once
OrderExact(r) ==
  LET meta == work[r][listMetaKey(TheList)]
  IN (IsLive(meta) /\ meta.type = "list")
       => /\ Range(meta.order) = LiveItemIds(r)
          /\ Len(meta.order) = Cardinality(LiveItemIds(r))
          /\ llen(r, TheList).value = Len(lrange(r, TheList, 0, 0 - 1).many)

\* C31: after every successful sync the order of a list with a live meta
\* record holds exactly the ids of the list's live item records, each once, so
\* that llen equals the number of elements of lrange(0, -1).
C31_OrderExact ==
  \A r \in Replicas : seen[r].phase = "ok" => OrderExact(r)

\* C32: the scalar merger is symmetric: mergeRecord(a, b) with a as local and
\* b as remote is the record mergeRecord(b, a) chooses, also when a and b have
\* equal updatedAt and equal id and different values.
C32_MergeSymmetric ==
  mOut.op = "mergeRecordSwapped" => mOut.winner = mOut.first

\* C33: a debounce timer makes its sync() call only while autoSync and
\* syncOnChange are both on: once setConfig has turned one of them off, no
\* change-triggered sync fires, also for a timer armed before the setConfig.
C33_NoSyncOnChangeWhenOff ==
  [][\A r \in Replicas : \A c \in CallIds :
       DebounceFires(r, c) => (config[r].autoSync /\ config[r].syncOnChange)]_vars

\* C34: once every sync() call of an instance has ended, by returning or by
\* raising, also when a handler threw while an event was emitted,
\* status.inFlight is false, so the gate lets the next sync() call in.
C34_InFlightReleased ==
  \A r \in Replicas : AllEnded(r) => ~status[r].inFlight

\* the items of the order of L that are conflict losers of the item winnerId
LosersOf(r, winnerId) ==
  {i \in Range(work[r][listMetaKey(TheList)].order) :
     /\ work[r][listItemKey(TheList, i)] # NoRec
     /\ work[r][listItemKey(TheList, i)].conflictLoser = winnerId}

\* the losers of winnerId stand directly after it, in ascending (updatedAt, id)
LosersAscending(r, winnerId) ==
  LET order == work[r][listMetaKey(TheList)].order
      at(i) == IndexOf(order, i)
  IN \A x \in LosersOf(r, winnerId) :
       /\ at(winnerId) < at(x)
       /\ at(x) <= at(winnerId) + Cardinality(LosersOf(r, winnerId))
       /\ \A y \in LosersOf(r, winnerId) :
            ItemLess(work[r], TheList, x, y) => at(x) < at(y)

\* C35: the conflict losers of one winner that are in the order of the list
\* stand directly after the winner in ascending (updatedAt, id) order, whether
\* applyPendingLosers or normalizeListOrders put them there.
C35_LosersAscending ==
  \A r \in Replicas :
    LET meta == work[r][listMetaKey(TheList)]
    IN (IsLive(meta) /\ meta.type = "list" /\ Quiescent(r))
         => \A winnerId \in Range(meta.order) :
              Cardinality(LosersOf(r, winnerId)) >= 2 => LosersAscending(r, winnerId)

\* the record of key k in the remote snapshot replica r has fetched
FetchedRecord(r, k) == IF tracking[r] = NoCommit THEN NoRec ELSE tracking[r].tree[k]

\* the step ends mergeBuckets of the call c of replica r
MergeEnds(r, c) ==
  /\ calls[r][c].pc \in {"enumerate", "mergeWrite"}
  /\ calls'[r][c].pc \in {"applyLosers", "normalize"}

\* C36: no step removes a record from a local bucket (del, lpop and rpop leave
\* a tombstone), and when the merge of a sync round ends the local buckets
\* hold a record for every key that has one in the fetched remote snapshot.
C36_NeverDropped ==
  [][\A r \in Replicas :
       /\ \A k \in AllKeys : work[r][k] # NoRec => work'[r][k] # NoRec
       /\ \A c \in CallIds :
            MergeEnds(r, c)
              => \A k \in AllKeys : FetchedRecord(r, k) # NoRec => work'[r][k] # NoRec]_vars

SetFrame(old, new, t) ==
  /\ new # NoRec
  /\ new.id = old.id
  /\ new.createdAt = old.createdAt
  /\ new.updatedAt = t
  /\ new.deletedAt = Null

\* the record new is the record old after a del or a pop at time t
DelFrame(old, new, t) ==
  /\ new # NoRec
  /\ new.id = old.id
  /\ new.createdAt = old.createdAt
  /\ new.type = old.type
  /\ new.value = old.value
  /\ new.order = old.order
  /\ new.updatedAt = t
  /\ new.deletedAt = t

\* C38: a set or lset on a key that has a record keeps its id and createdAt,
\* sets updatedAt to the current time and deletedAt to null; a del or a pop
\* keeps id, createdAt, type and value of the record it deletes and sets
\* deletedAt = updatedAt = now; and no local operation changes the id of the
\* record of a key.
C38_LocalFrame ==
  [][\A r \in Replicas : \A k \in AllKeys :
       LET old == work[r][k]
           new == work'[r][k]
       IN (ops'[r] # ops[r] /\ old # NoRec /\ new # old)
            => /\ new # NoRec /\ new.id = old.id
               /\ last'[r].op \in {"set", "lset"} => SetFrame(old, new, clock'[r])
               /\ last'[r].op = "del" => DelFrame(old, new, clock'[r])
               /\ (last'[r].op \in {"lpop", "rpop"} /\ k \in ItemKeys)
                    => DelFrame(old, new, clock'[r])]_vars

\* the working tree of replica r is the snapshot of the remote branch and of
\* its own branch, and the order of the list needs no change: a sync round
\* that starts here has no record to change
NothingToSync(r) ==
  /\ remote # NoCommit
  /\ head[r] # NoCommit
  /\ remote.tree = work[r]
  /\ head[r].tree = work[r]
  /\ ~normWrites(work[r], TheList)

\* C39: a step of a sync round that has no record to change does not raise
\* writeCount or writeBytes, so that idle rounds alone never make a
\* compaction due.
C39_IdleSyncCountsNothing ==
  [][\A r \in Replicas : \A c \in CallIds :
       (InPipeline(r, c) /\ calls'[r][c] # calls[r][c] /\ NothingToSync(r))
         => /\ work'[r] = work[r]
            /\ writeCount'[r] <= writeCount[r]
            /\ writeBytes'[r] <= writeBytes[r]]_vars

====
